---- MODULE Spec2Model ----
(***************************************************************************)
(* Retrieval-augmented prompt construction pipeline of the chat worker:    *)
(* retrieve -> rerank -> MMR -> compress -> join-context -> prompt.        *)
(*                                                                         *)
(* Documents are heap objects: `heap` maps an object identity (oid) to the *)
(* document's fields, and the pipeline state holds sequences of oids, so   *)
(* that in-place metadata mutation (rerank_score) and de-duplication by    *)
(* object identity behave as in the program.                               *)
(*                                                                         *)
(* Conventions: an absent string field (None) and the empty string are     *)
(* both "" wherever the code only tests truthiness; an optional number is  *)
(* <<>> (None) or <<n>>; a float that may be non-finite is <<>> (None),    *)
(* <<"fin", n>>, <<"nan">>, <<"inf">> or <<"ninf">>, with n counted in     *)
(* units of 1/ScoreOne.                                                    *)
(***************************************************************************)
EXTENDS Integers, Sequences, FiniteSets, TLC

VARIABLES
  pc,               \* position of the pipeline task
  heap,             \* oid -> Document
  max_context,      \* RagPipeline.max_context
  docs,             \* RagState.docs
  reranked_docs,    \* RagState.reranked_docs
  mmr_docs,         \* RagState.mmr_docs
  compressed_docs,  \* RagState.compressed_docs
  buf,              \* join_context: the blocks packed, each with its input position
  context,          \* RagState.context
  citations,        \* RagState.citations
  question,         \* RagState.question
  stream,           \* stream_ctx: has_stream, has_recorder, job_id, user_id, session_id
  published,        \* events handed to the stream's publish callback, in order
  recorded,         \* (event type, payload) pairs handed to record_event, in order
  reranker,         \* RagPipeline.reranker: "none", "llm" (an LLMReranker) or "port"
  rr_cfg,           \* the reranker's RerankConfig
  candidates,       \* arerank: the capped candidates
  rr_pos,           \* arerank: index of the first candidate of the next batch
  items,            \* arerank: the (id, doc, preview) items of the last batch
  scored,           \* arerank: the (doc, score) pairs gathered so far
  rr_error,         \* how the last arerank call ended: "none", "fail_open", "raised"
  rag,              \* RagState.rag: the per-request overrides
  defaults,         \* RagPipeline.default_top_k and default_mmq
  schema,           \* the text field the collection holds
  text_key,         \* RagPipeline.text_key
  rt_text_key,      \* stage_retrieve: the text field of the stage's retriever
  rt_queries,       \* stage_retrieve: the query variants
  rt_pos,           \* stage_retrieve: index of the variant being run
  rt_fallback,      \* _run_query: index of the fallback field being tried, 0 for none
  docs_by_query,    \* stage_retrieve: the result list of each variant run so far
  calls,            \* the retriever.invoke calls made, in order
  mmr,              \* RagPipeline.mmr_k, mmr_fetch_k, mmr_lambda_mult, mmr_similarity_threshold
  hc_cfg,           \* the HeuristicCompressorConfig of the last compression
  kept,             \* HeuristicCompressor.compress_docs: the kept list once sorted
  hc_out,           \* the heuristic tier's output while the LLM tier runs
  heuristic_hits,   \* RagState.heuristic_hits
  llm_applied,      \* RagState.llm_applied
  llm_compressor,   \* RagPipeline.llm_compressor: "none" or "llm"
  llm_async,        \* whether the LLM adapters override _call_llm_async (ainvoke)
  abandoned,        \* external calls left running in a worker thread by a cancelled task
  lc_cfg,           \* LLMContextualCompressor.cfg
  lc_docs,          \* compress_docs: the docs argument
  lc_out,           \* compress_docs: out
  lc_calls,         \* compress_docs: per document handled, its text and what the LLM call gave
  lc_state,         \* compress_docs: "idle", "running", "returned" or "raised"
  normalized,       \* the results of normalize_query applied to the question, then to its own result
  expanded,         \* the call of expand_queries made: its mmq and the list returned
  vs_chunks,        \* the chunks stub.ChatCompletionStream yields
  vs_pos,           \* astream: the number of chunks taken from the stream
  vs_callbacks,     \* per callback handler, the on_llm_* calls it received
  vs_end_called,    \* astream: end_called
  vs_state,         \* astream: where the call is, and the exception it raised if any
  rel_scores        \* _compute_default_rel_scores: the candidates given and the scores returned

joinVars == <<buf, context, citations>>

rerankVars == <<candidates, rr_pos, items, scored, rr_error>>

streamVars == <<published, recorded>>

configVars == <<max_context, question, stream, reranker, rr_cfg, rag, defaults, schema,
               mmr>>

retrieveVars == <<text_key, rt_text_key, rt_queries, rt_pos, rt_fallback,
                  docs_by_query, calls>>

compressVars == <<hc_cfg, kept, hc_out, heuristic_hits, llm_applied, llm_compressor>>

taskVars == <<llm_async, abandoned>>

llmVars == <<lc_cfg, lc_docs, lc_out, lc_calls, lc_state>>

queryVars == <<normalized, expanded>>

vllmVars == <<vs_chunks, vs_pos, vs_callbacks, vs_end_called, vs_state>>

relVars == <<rel_scores>>

vars == <<pc, heap, docs, reranked_docs, mmr_docs, compressed_docs,
          joinVars, rerankVars, streamVars, configVars, retrieveVars,
          compressVars, taskVars, llmVars, queryVars, vllmVars, vllmVars>>

(***************************************************************************)
(* Bounds of the model.                                                    *)
(***************************************************************************)
MaxDocs == 3
MaxBudget == 5
MaxBatch == 3
MaxRerank == 2
MaxResp == 2
MaxMmq == 2
MaxMmrDocs == 2
MaxSelDocs == 3
MaxCompDocs == 3
MaxCiteDocs == 1

(***************************************************************************)
(* Generic helpers.                                                        *)
(***************************************************************************)
None == <<>>

Some(v) == <<v>>

Fin(n) == <<"fin", n>>

Max(a, b) == IF a >= b THEN a ELSE b

Min(a, b) == IF a <= b THEN a ELSE b

Take(s, k) == SubSeq(s, 1, Min(Max(k, 0), Len(s)))

\* Python's s[:k]: a negative k counts from the end.
SliceTo(s, k) == IF k >= 0 THEN Take(s, k) ELSE Take(s, Len(s) + k)

Range(s) == {s[i] : i \in 1..Len(s)}

\* Python's `a or b` on strings: None and "" are falsy.
StrOr(a, b) == IF a # "" THEN a ELSE b

\* The sub-list of s at the positions in idx, in order.
RECURSIVE SubList(_, _, _)
SubList(s, idx, i) ==
  IF i > Len(s) THEN <<>>
  ELSE (IF i \in idx THEN <<s[i]>> ELSE <<>>) \o SubList(s, idx, i + 1)

RECURSIVE SumLen(_, _)
SumLen(h, s) ==
  IF s = <<>> THEN 0 ELSE Len(h[s[1]].page_content) + SumLen(h, Tail(s))

(***************************************************************************)
(* Document: the canonical record carried between stages.                  *)
(***************************************************************************)
BlankDoc ==
  [page_content |-> "", title |-> "", chunk_id |-> "", doc_id |-> "",
   file_id |-> "", uri |-> "", snippet |-> "",
   page |-> None, chunk_index |-> None, score |-> None,
   md_chunk_id |-> "", md_id |-> "", md_doc_id |-> "", md_source_id |-> "",
   md_weaviate_id |-> "", md_uuid |-> "",
   md_filename |-> "", md_section |-> "", md_uri |-> "", md_url |-> "",
   md_snippet |-> "", md_page |-> None, md_chunk_index |-> None,
   md_score |-> None, md_rerank_score |-> None, md_rerank_reason |-> "",
   md_orig_score |-> None, md_distance |-> None,
   md_embedding |-> None, md_vector |-> None,
   md_filename_kw |-> "", md_orig_rank |-> None, md_compressed |-> FALSE,
   md_mmr_rank |-> None, md_mmr_lambda |-> None]

(***************************************************************************)
(* Stream context and stage events.                                        *)
(***************************************************************************)
\* RagState.rag without overrides.
NoRag ==
  [topK |-> None, mmq |-> None, mmrK |-> <<"unset">>, mmrFetchK |-> <<"unset">>,
   mmrLambda |-> <<"unset">>, mmrSimilarityThreshold |-> <<"unset">>,
   maxContext |-> <<"unset">>, useLlm |-> <<"unset">>]

\* A pipeline built without MMR arguments.
NoMmr == [k |-> None, fetch_k |-> None, lambda_mult |-> None,
          similarity_threshold |-> None]

NoStream ==
  [has_stream |-> FALSE, has_recorder |-> FALSE,
   job_id |-> "", user_id |-> "", session_id |-> ""]

\* stream_context: has_stream = bool(publish and job_id and user_id)
Streams ==
  {NoStream} \cup
  {[has_stream |-> TRUE, has_recorder |-> r,
    job_id |-> "job-1", user_id |-> "user-1", session_id |-> "sess-1"] :
     r \in BOOLEAN}

\* The keys every event carries; model_dump(by_alias=True, exclude_none=True).
EventHead(event, query) ==
  [event |-> event, jobId |-> stream.job_id, userId |-> stream.user_id,
   sessionId |-> stream.session_id, query |-> query]

MutRecordPayload(evt) == evt

\* The recorder's payload: the published payload without event, jobId,
\* userId and sessionId.
RecordPayload(evt) ==
  [k \in (DOMAIN evt) \ {"event", "jobId", "userId", "sessionId"} |-> evt[k]]

\* emit_search_event / emit_stage_event: nothing without a stream; publish,
\* then mirror to record_event when a recorder is supplied.
PublishedAfter(pub, evt) ==
  IF stream.has_stream THEN Append(pub, evt) ELSE pub

RecordedAfter(rec, evt) ==
  IF stream.has_stream /\ stream.has_recorder
  THEN Append(rec, [type |-> evt.event, payload |-> RecordPayload(evt)])
  ELSE rec

(***************************************************************************)
(* Query normalisation.  Strings are ASCII; "$" and "@" stand for the two  *)
(* Hangul syllables U+B514 and U+BE44 (the alias "db"), the only Hangul of *)
(* the model: they are word characters of the class [U+AC00-U+D7A3].       *)
(***************************************************************************)
CharAt(s, i) == SubSeq(s, i, i)

InStr(c, s) == \E i \in 1..Len(s) : CharAt(s, i) = c

UpperCase == "ABCDEFGHIJKLMNOPQRSTUVWXYZ"

LowerCase == "abcdefghijklmnopqrstuvwxyz"

DigitChars == "0123456789"

HangulDi == "$"

HangulBi == "@"

IsHangul(c) == c \in {HangulDi, HangulBi}

\* [a-z0-9]
IsLowerAlnum(c) == InStr(c, LowerCase) \/ InStr(c, DigitChars)

\* \w
IsWordChar(c) ==
  IsLowerAlnum(c) \/ InStr(c, UpperCase) \/ c = "_" \/ IsHangul(c)

\* \s
IsSpaceChar(c) == c \in {" ", "\t"}

LowerChar(c) ==
  IF InStr(c, UpperCase)
  THEN CharAt(LowerCase, CHOOSE i \in 1..Len(UpperCase) : CharAt(UpperCase, i) = c)
  ELSE c

\* str.lower()
RECURSIVE LowerFrom(_, _)
LowerFrom(s, i) ==
  IF i > Len(s) THEN "" ELSE LowerChar(CharAt(s, i)) \o LowerFrom(s, i + 1)

\* The first position from i on that holds no whitespace.
RECURSIVE SkipSpaces(_, _)
SkipSpaces(s, i) ==
  IF i <= Len(s) /\ IsSpaceChar(CharAt(s, i)) THEN SkipSpaces(s, i + 1) ELSE i

\* ko_tech_aliases: of the thirteen patterns only di \s* bi -> "db" can match
\* a string over the model's alphabet.
RECURSIVE AliasFrom(_, _)
AliasFrom(s, i) ==
  IF i > Len(s) THEN ""
  ELSE LET j == SkipSpaces(s, i + 1)
       IN IF CharAt(s, i) = HangulDi /\ j <= Len(s) /\ CharAt(s, j) = HangulBi
          THEN "db" \o AliasFrom(s, j + 1)
          ELSE CharAt(s, i) \o AliasFrom(s, i + 1)

ko_tech_aliases(q) == AliasFrom(q, 1)

\* re.sub(r"([hangul])([a-z0-9])", r"\1 \2") then the mirrored pattern.
RECURSIVE BoundaryFrom(_, _, _)
BoundaryFrom(s, i, hangulFirst) ==
  IF i > Len(s) THEN ""
  ELSE LET c == CharAt(s, i)
           n == IF i < Len(s) THEN CharAt(s, i + 1) ELSE ""
           split == IF hangulFirst THEN IsHangul(c) /\ n # "" /\ IsLowerAlnum(n)
                    ELSE IsLowerAlnum(c) /\ n # "" /\ IsHangul(n)
       IN c \o (IF split THEN " " ELSE "") \o BoundaryFrom(s, i + 1, hangulFirst)

\* q.replace("-", " ") when dashes go, then re.sub(r"[^\w\s]", " ") or, when
\* dashes stay, re.sub(r"[^\w\s-]", " ").
RECURSIVE PunctFrom(_, _, _)
PunctFrom(s, i, keepDash) ==
  IF i > Len(s) THEN ""
  ELSE LET c == CharAt(s, i)
           keep == IsWordChar(c) \/ IsSpaceChar(c) \/ (keepDash /\ c = "-")
       IN (IF keep THEN c ELSE " ") \o PunctFrom(s, i + 1, keepDash)

\* re.sub(r"\s+", " ", q).strip()
RECURSIVE CollapseFrom(_, _, _, _)
CollapseFrom(s, i, acc, pending) ==
  IF i > Len(s) THEN acc
  ELSE LET c == CharAt(s, i)
       IN IF IsSpaceChar(c) THEN CollapseFrom(s, i + 1, acc, acc # "")
          ELSE CollapseFrom(s, i + 1,
                            acc \o (IF pending THEN " " ELSE "") \o c, FALSE)

\* str.strip()
RECURSIVE Strip(_)
Strip(s) ==
  IF s = "" THEN ""
  ELSE IF IsSpaceChar(CharAt(s, 1)) THEN Strip(SubSeq(s, 2, Len(s)))
  ELSE IF IsSpaceChar(CharAt(s, Len(s))) THEN Strip(SubSeq(s, 1, Len(s) - 1))
  ELSE s

\* NFC leaves every string of the model's alphabet as it is.
normalize_query(q, mode) ==
  LET a == ko_tech_aliases(q)
      l == LowerFrom(a, 1)
  IN IF mode = "full"
     THEN CollapseFrom(
            PunctFrom(BoundaryFrom(BoundaryFrom(l, 1, TRUE), 1, FALSE), 1, FALSE),
            1, "", FALSE)
     ELSE IF mode = "light"
     THEN CollapseFrom(PunctFrom(l, 1, TRUE), 1, "", FALSE)
     ELSE a

\* re.findall of a character class repeated at least `least` times: the
\* maximal runs of the class that are long enough.
RECURSIVE RunsFrom(_, _, _, _, _)
RunsFrom(s, i, hangul, least, run) ==
  LET done == IF Len(run) >= least THEN <<run>> ELSE <<>>
  IN IF i > Len(s) THEN done
     ELSE LET c == CharAt(s, i)
              in == IF hangul THEN IsHangul(c) ELSE IsLowerAlnum(c)
          IN IF in THEN RunsFrom(s, i + 1, hangul, least, run \o c)
             ELSE done \o RunsFrom(s, i + 1, hangul, least, "")

LongerThan(words, least) == SelectSeq(words, LAMBDA w : Len(w) >= least)

\* kw_tokens_split: no stop token is in the model's alphabet.
kw_tokens_split(q) ==
  LET nq == normalize_query(q, "full")
      ascii_words == RunsFrom(nq, 1, FALSE, 3, "")
      korean_words == RunsFrom(nq, 1, TRUE, 2, "")
  IN [toks |-> ascii_words \o korean_words,
      rare |-> LongerThan(ascii_words, 4) \o LongerThan(korean_words, 3)]

\* " ".join(words)
RECURSIVE JoinWords(_)
JoinWords(words) ==
  IF words = <<>> THEN ""
  ELSE IF Len(words) = 1 THEN words[1]
  ELSE words[1] \o " " \o JoinWords(Tail(words))

MutAddVariant(variants, q) == Append(variants, q)

\* _add of expand_queries
AddVariant(variants, q) ==
  LET text == Strip(q)
  IN IF text = "" \/ text \in Range(variants) THEN variants
     ELSE Append(variants, text)

expand_queries(query, mmq) ==
  IF mmq <= 1 THEN <<query>>
  ELSE LET split == kw_tokens_split(query)
           v1 == AddVariant(<<>>, query)
           v2 == AddVariant(v1, normalize_query(query, "light"))
           v3 == AddVariant(v2, normalize_query(query, "full"))
           v4 == IF split.rare # <<>> THEN AddVariant(v3, JoinWords(split.rare))
                 ELSE v3
           v5 == IF split.toks # <<>> THEN AddVariant(v4, JoinWords(split.toks))
                 ELSE v4
       IN Take(v5, Max(1, mmq))

\* normalize_query(q, mode="full") called on the question, then on its own
\* result.
NormalizeQuery ==
  /\ pc = "query"
  /\ Len(normalized) < 2
  /\ normalized' = Append(normalized,
                          normalize_query(IF normalized = <<>> THEN question
                                          ELSE normalized[Len(normalized)], "full"))
  /\ UNCHANGED <<pc, heap, docs, reranked_docs, mmr_docs, compressed_docs, joinVars,
                 rerankVars, streamVars, configVars, retrieveVars, compressVars,
                 taskVars, llmVars, expanded, vllmVars, relVars>>

\* expand_queries(question, mmq) called with any mmq.
ExpandQueries ==
  /\ pc = "query"
  /\ expanded = <<>>
  /\ \E mmq \in -1..(MaxMmq + 1) :
       expanded' = <<[mmq |-> mmq, variants |-> expand_queries(question, mmq)]>>
  /\ UNCHANGED <<pc, heap, docs, reranked_docs, mmr_docs, compressed_docs, joinVars,
                 rerankVars, streamVars, configVars, retrieveVars, compressVars,
                 taskVars, llmVars, normalized, vllmVars, relVars>>

(***************************************************************************)
(* LLM reranker.                                                           *)
(***************************************************************************)
ScoreOne == 2

NegInf == <<"ninf">>

DefaultRerankConfig ==
  [max_candidates |-> 30, top_n |-> 8, batch_size |-> 12,
   max_doc_chars |-> 1800, fail_open |-> TRUE]

\* list(docs)[: max(cfg.max_candidates, 0) or 0] or list(docs)
Candidates(ds, cfg) ==
  LET c == SliceTo(ds, Max(cfg.max_candidates, 0))
  IN IF c # <<>> THEN c ELSE ds

\* _batched: the batch that starts at position i.
BatchAt(cands, i, n) ==
  SubSeq(cands, i, Min(i + Max(n, 1) - 1, Len(cands)))

\* _doc_id: the first truthy of metadata chunk_id, id, doc_id, source_id,
\* else the fallback (the position in the batch, from 0).
DocId(d, fallback) ==
  StrOr(d.md_chunk_id, StrOr(d.md_id, StrOr(d.md_doc_id,
        StrOr(d.md_source_id, fallback))))

\* _trim_text ("~" stands for the one-character ellipsis).
TrimText(text, max_chars) ==
  LET t == CollapseFrom(text, 1, "", FALSE)
  IN IF max_chars <= 0 THEN text
     ELSE IF Len(t) <= max_chars THEN t
     ELSE SubSeq(t, 1, max_chars - 1) \o "~"

Suffixed(rid, k) == rid \o "#" \o ToString(k)

MutFreeSuffix(rid, used) == 1

\* The while loop of _prepare_items: the first suffix whose id is unused.
FreeSuffix(rid, used) ==
  CHOOSE k \in 1..(Cardinality(used) + 1) :
    /\ Suffixed(rid, k) \notin used
    /\ \A j \in 1..(k - 1) : Suffixed(rid, j) \in used

RECURSIVE PrepareFrom(_, _, _, _, _, _)
PrepareFrom(h, batch, cfg, i, used, acc) ==
  IF i > Len(batch) THEN acc
  ELSE LET d == h[batch[i]]
           rid0 == DocId(d, ToString(i - 1))
           rid == IF rid0 \in used
                  THEN Suffixed(rid0, FreeSuffix(rid0, used))
                  ELSE rid0
       IN PrepareFrom(h, batch, cfg, i + 1, used \cup {rid},
                      Append(acc, [rid |-> rid, doc |-> batch[i],
                                   preview |-> TrimText(d.page_content,
                                                        cfg.max_doc_chars)]))

\* _prepare_items
PrepareItems(h, batch, cfg) == PrepareFrom(h, batch, cfg, 1, {}, <<>>)

ItemIds(its) == {its[i].rid : i \in 1..Len(its)}

\* id_to_doc = {it[0]: it[1] for it in items}: a later item wins its id.
IdToDoc(its, rid) ==
  LET hits == {i \in 1..Len(its) : its[i].rid = rid}
  IN its[CHOOSE i \in hits : \A j \in hits : j <= i].doc

\* The clamp of _parse_llm_json: max(0.0, min(1.0, fscore)).
Clamp(x) == Max(0, Min(ScoreOne, x))

\* _parse_llm_json on a JSON array: objects without an id or a score are
\* dropped, scores are clamped.
RECURSIVE ParseObjects(_)
ParseObjects(data) ==
  IF data = <<>> THEN <<>>
  ELSE LET o == data[1]
       IN IF o.id = "" \/ o.score = None THEN ParseObjects(Tail(data))
          ELSE <<[rid |-> o.id, score |-> Clamp(o.score[1]), reason |-> o.reason]>>
               \o ParseObjects(Tail(data))

\* The loop over the parsed results: write rerank_score (and rerank_reason)
\* into the document's metadata and append (doc, score) to scored.
RECURSIVE ApplyResults(_, _, _, _)
ApplyResults(h, sc, its, results) ==
  IF results = <<>> THEN [heap |-> h, scored |-> sc]
  ELSE LET r == results[1]
       IN IF r.rid \notin ItemIds(its)
          THEN ApplyResults(h, sc, its, Tail(results))
          ELSE LET o == IdToDoc(its, r.rid)
                   h1 == [h EXCEPT ![o].md_rerank_score = Fin(r.score),
                                   ![o].md_rerank_reason =
                                      IF r.reason # "" THEN r.reason ELSE @]
               IN ApplyResults(h1, Append(sc, [doc |-> o, score |-> Fin(r.score)]),
                               its, Tail(results))

\* The loop over the ids missing from the response, in the order `order`
\* (the iteration order of a set of strings): setdefault(rerank_score, -inf).
MutApplyMissing(h, sc, its, order) == [heap |-> h, scored |-> sc]

RECURSIVE ApplyMissing(_, _, _, _)
ApplyMissing(h, sc, its, order) ==
  IF order = <<>> THEN [heap |-> h, scored |-> sc]
  ELSE LET o == IdToDoc(its, order[1])
           s == IF h[o].md_rerank_score = None THEN NegInf
                ELSE h[o].md_rerank_score
           h1 == [h EXCEPT ![o].md_rerank_score = s]
       IN ApplyMissing(h1, Append(sc, [doc |-> o, score |-> s]), its, Tail(order))

\* The sort key as a number: -inf sorts below every clamped score.
ScoreKey(s) == IF s = NegInf THEN 0 - 1 ELSE s[2]

\* scored.sort(key=score, reverse=True): Python's sort is stable, also when
\* reversed; insertion of each element after its equals.
RECURSIVE InsertDesc(_, _)
InsertDesc(sorted, e) ==
  IF sorted = <<>> THEN <<e>>
  ELSE IF ScoreKey(sorted[1].score) >= ScoreKey(e.score)
       THEN <<sorted[1]>> \o InsertDesc(Tail(sorted), e)
       ELSE <<e>> \o sorted

RECURSIVE SortDesc(_, _)
SortDesc(sc, acc) ==
  IF sc = <<>> THEN acc ELSE SortDesc(Tail(sc), InsertDesc(acc, sc[1]))

\* De-duplication by object identity, first occurrence kept.
RECURSIVE Uniq(_, _)
Uniq(s, seen) ==
  IF s = <<>> THEN <<>>
  ELSE IF s[1] \in seen THEN Uniq(Tail(s), seen)
       ELSE <<s[1]>> \o Uniq(Tail(s), seen \cup {s[1]})

\* Step 3 of rerank: global sort, de-duplication, cut to top_n.
SortAndCut(sc, cfg) ==
  LET ranked == SortDesc(sc, <<>>)
      uniq == Uniq([i \in 1..Len(ranked) |-> ranked[i].doc], {})
  IN IF cfg.top_n > 0 THEN Take(uniq, cfg.top_n) ELSE uniq

\* The except branch of rerank with fail_open:
\* list(docs)[: cfg.top_n] if cfg.top_n else list(docs)
FailOpenResult(ds, cfg) ==
  IF cfg.top_n # 0 THEN SliceTo(ds, cfg.top_n) ELSE ds

RerankIdle ==
  /\ candidates = <<>>
  /\ rr_pos = 0
  /\ items = <<>>
  /\ scored = <<>>
  /\ rr_error = "none"

(***************************************************************************)
(* join_context                                                            *)
(***************************************************************************)
SnippetMax == 240

\* _snippet: whitespace runs collapse to one space; the head of an
\* over-long text is cut and "..." appended.
Snippet(text) ==
  LET compact == CollapseFrom(text, 1, "", FALSE)
  IN IF Len(compact) <= SnippetMax THEN compact
     ELSE SubSeq(compact, 1, SnippetMax - 3) \o "..."

MutAsFloat(val) == val

\* _as_float: None stays None, a non-finite float becomes None.
AsFloat(val) ==
  IF val = None THEN None
  ELSE IF val[1] = "fin" THEN val ELSE None

\* Python truthiness of an optional float: None and 0.0 are falsy.
FloatTruthy(val) == val # None /\ ~(val[1] = "fin" /\ val[2] = 0)

CitationTitle(d) == StrOr(d.title, StrOr(d.md_filename, "Untitled"))

MutCitationScore(d) == Fin(0)

CitationScore(d) ==
  LET rr == IF d.md_rerank_score # None THEN AsFloat(d.md_rerank_score) ELSE None
  IN IF rr # None THEN rr
     ELSE IF FloatTruthy(AsFloat(d.md_score)) THEN AsFloat(d.md_score)
          ELSE AsFloat(d.score)

MutSourceId(ncit, i) == "S" \o ToString(i)

\* source_id = f"S{len(citations) + 1}" for the document at input position i.
SourceId(ncit, i) == "S" \o ToString(ncit + 1)

CitationChunkId(d) ==
  StrOr(d.chunk_id, StrOr(d.md_chunk_id, StrOr(d.md_id, d.doc_id)))

Citation(d, source_id) ==
  LET s == CitationScore(d)
  IN [id |-> source_id,
      source_id |-> source_id,
      title |-> CitationTitle(d),
      file_name |-> CitationTitle(d),
      uri |-> StrOr(d.uri, StrOr(d.md_uri, d.md_url)),
      chunk_id |-> CitationChunkId(d),
      page |-> IF d.page # None THEN d.page ELSE d.md_page,
      snippet |-> StrOr(d.snippet, StrOr(d.md_snippet, Snippet(d.page_content))),
      rerank_score |-> s,
      score |-> s]

Block(d) ==
  "[" \o CitationTitle(d) \o "]"
      \o (IF d.md_section # "" THEN " > " \o d.md_section ELSE "")
      \o "\n" \o d.page_content \o "\n"

MutOverBudget(budget, total, ln) == total > budget

\* The budget test of the packing loop: skip the document when it does not fit.
OverBudget(budget, total, ln) == total + ln > budget

\* The packing loop from position i on, with the locals buf, total, citations.
RECURSIVE PackFrom(_, _, _, _, _, _, _)
PackFrom(h, ds, budget, i, b, total, cits) ==
  IF i > Len(ds) THEN [buf |-> b, citations |-> cits]
  ELSE LET d == h[ds[i]]
           ln == Len(d.page_content)
       IN IF OverBudget(budget, total, ln)
          THEN PackFrom(h, ds, budget, i + 1, b, total, cits)
          ELSE PackFrom(h, ds, budget, i + 1,
                        Append(b, [idx |-> i, doc |-> ds[i], text |-> Block(d)]),
                        total + ln,
                        Append(cits, Citation(d, SourceId(Len(cits), i))))

RECURSIVE JoinBlocks(_)
JoinBlocks(b) ==
  IF b = <<>> THEN ""
  ELSE IF Len(b) = 1 THEN b[1].text
  ELSE b[1].text \o "\n---\n" \o JoinBlocks(Tail(b))

JoinContext(h, ds, budget) ==
  LET r == PackFrom(h, ds, budget, 1, <<>>, 0, <<>>)
  IN [buf |-> r.buf, context |-> JoinBlocks(r.buf), citations |-> r.citations]

NoDocsContext ==
  "No relevant documents were found. Providing a general answer to the question."

\* compressed_docs or mmr_docs or reranked_docs or docs
JoinInput ==
  IF compressed_docs # <<>> THEN compressed_docs
  ELSE IF mmr_docs # <<>> THEN mmr_docs
  ELSE IF reranked_docs # <<>> THEN reranked_docs
  ELSE docs

StageJoinContext ==
  /\ pc = "join"
  /\ IF JoinInput = <<>>
     THEN /\ buf' = <<>>
          /\ context' = NoDocsContext
          /\ citations' = <<>>
     ELSE LET r == JoinContext(heap, JoinInput, max_context)
          IN /\ buf' = r.buf
             /\ context' = r.context
             /\ citations' = r.citations
  /\ pc' = "prompt"
  /\ UNCHANGED <<heap, docs, reranked_docs, mmr_docs, compressed_docs,
                 rerankVars, streamVars, configVars, compressVars, taskVars, llmVars, queryVars, vllmVars, relVars, retrieveVars>>

(***************************************************************************)
(* Document keys and the multi-query merge.                                *)
(***************************************************************************)
OptStr(v) == IF v = None THEN "None" ELSE ToString(v[1])

FirstOpt(a, b) == IF a # None THEN a ELSE b

\* doc_key; hash(page_content) is taken to be free of collisions.
doc_key(d) ==
  LET key == StrOr(d.chunk_id, StrOr(d.md_chunk_id, StrOr(d.md_id,
               StrOr(d.doc_id, d.md_doc_id))))
      title == StrOr(d.title, d.md_filename)
      page == FirstOpt(d.page, d.md_page)
      chunk_index == FirstOpt(d.chunk_index, d.md_chunk_index)
  IN IF key # "" THEN key
     ELSE IF d.uri # "" THEN "uri:" \o d.uri
     ELSE IF title # "" \/ page # None \/ chunk_index # None
     THEN title \o "|" \o OptStr(page) \o "|" \o OptStr(chunk_index)
     ELSE "content:" \o d.page_content

\* doc_stable_key of the document object o: a value, a pair, or the
\* object's identity; a value never equals a pair or an identity.
doc_stable_key(d, o) ==
  LET meta == StrOr(d.md_weaviate_id, StrOr(d.md_id, StrOr(d.md_uuid, d.md_chunk_id)))
  IN IF d.doc_id # "" THEN <<"value", d.doc_id, 0>>
     ELSE IF d.file_id # "" /\ d.chunk_index # None
     THEN <<"pair", d.file_id, d.chunk_index[1]>>
     ELSE IF meta # "" THEN <<"value", meta, 0>>
     ELSE IF d.title # "" /\ d.chunk_index # None
     THEN <<"pair", d.title, d.chunk_index[1]>>
     ELSE <<"id", "", o>>

MutKeySeen(key, seen) == FALSE

\* merge_docs: `if key in seen: continue`
KeySeen(key, seen) == key \in seen

MutLimitReached(limit, n) == TRUE

\* merge_docs: `if limit is not None and len(merged) >= limit: return merged`
LimitReached(limit, n) == limit # None /\ n >= limit[1]

\* merge_docs from document di of result list qi on.
RECURSIVE MergeFrom(_, _, _, _, _, _)
MergeFrom(by_query, limit, qi, di, merged, seen) ==
  IF qi > Len(by_query) THEN merged
  ELSE IF di > Len(by_query[qi]) THEN MergeFrom(by_query, limit, qi + 1, 1, merged, seen)
  ELSE LET d == by_query[qi][di]
           key == doc_key(d)
       IN IF KeySeen(key, seen)
          THEN MergeFrom(by_query, limit, qi, di + 1, merged, seen)
          ELSE IF LimitReached(limit, Len(merged) + 1) THEN Append(merged, d)
          ELSE MergeFrom(by_query, limit, qi, di + 1, Append(merged, d),
                         seen \cup {key})

merge_docs(by_query, limit) == MergeFrom(by_query, limit, 1, 1, <<>>, {})

(***************************************************************************)
(* stage_retrieve.  The retriever port answers a call with a list of       *)
(* documents, with a KeyError when the collection lacks the text field of  *)
(* the call, or with another error.                                        *)
(***************************************************************************)
\* Two chunks of one document, a copy of the first chunk under another
\* document id, and a document without ids.
Hits ==
  {[BlankDoc EXCEPT !.chunk_id = "c1", !.doc_id = "d1", !.page_content = "ab"],
   [BlankDoc EXCEPT !.chunk_id = "c2", !.doc_id = "d1", !.page_content = "abcd"],
   [BlankDoc EXCEPT !.md_chunk_id = "c1", !.doc_id = "d2", !.page_content = "ab"],
   [BlankDoc EXCEPT !.title = "Doc", !.page_content = "ab"]}

HitLists == UNION {[1..n -> Hits] : n \in 0..2}

\* mmq = max(1, int(rag.mmq or self.default_mmq or 1))
EffectiveMmq ==
  Max(1, IF rag.mmq # None /\ rag.mmq # Some(0) THEN rag.mmq[1]
         ELSE IF defaults.mmq # 0 THEN defaults.mmq ELSE 1)

\* max_hits = int(topK if topK is not None else default_top_k) * len(queries)
MaxHits(nqueries) ==
  Some((IF rag.topK # None THEN rag.topK[1] ELSE defaults.top_k) * nqueries)

\* The text fields tried after [self.text_key, ...]; the loop skips an empty
\* field and the field equal to self.text_key.
FallbackKeys == <<"text", "page_content", "body", "chunk">>

NextFallback(after) ==
  LET later == {j \in (after + 1)..Len(FallbackKeys) : FallbackKeys[j] # text_key}
  IN IF later = {} THEN 0 ELSE CHOOSE j \in later : \A k \in later : j <= k

CallTextKey == IF rt_fallback = 0 THEN rt_text_key ELSE FallbackKeys[rt_fallback]

CallLogged(outcome) ==
  Append(calls, [query |-> rt_queries[rt_pos], text_key |-> CallTextKey,
                 variant |-> rt_pos, outcome |-> outcome])

RetrieveCompletedEvent(n) ==
  EventHead("rag_retrieve.completed", question) @@ [hits |-> n]

\* The tail of stage_retrieve once every variant has been answered.
RetrieveReturns(pub, rec, by_query, nqueries) ==
  LET merged == merge_docs(by_query, MaxHits(nqueries))
  IN /\ heap' = merged
     /\ docs' = [i \in 1..Len(merged) |-> i]
     /\ published' = PublishedAfter(pub, RetrieveCompletedEvent(Len(merged)))
     /\ recorded' = RecordedAfter(rec, RetrieveCompletedEvent(Len(merged)))
     /\ pc' = "rerank"

StageRetrieve ==
  /\ pc = "retrieve"
  /\ LET queries == expand_queries(question, EffectiveMmq)
         started == EventHead("rag_retrieve.in_progress", question)
         pub == PublishedAfter(published, started)
         rec == RecordedAfter(recorded, started)
     IN /\ rt_queries' = queries
        /\ rt_text_key' = text_key
        /\ rt_fallback' = 0
        /\ docs_by_query' = <<>>
        /\ calls' = <<>>
        /\ IF queries = <<>>
           THEN /\ RetrieveReturns(pub, rec, <<>>, 0)
                /\ rt_pos' = 0
           ELSE /\ published' = pub
                /\ recorded' = rec
                /\ rt_pos' = 1
                /\ pc' = "retrieve_call"
                /\ UNCHANGED <<heap, docs>>
  /\ UNCHANGED <<text_key, reranked_docs, mmr_docs, compressed_docs, joinVars,
                 rerankVars, configVars, compressVars, taskVars, llmVars, queryVars, vllmVars, relVars>>

\* retriever.invoke returns a RetrieveResult with the documents `hits`; a
\* fallback field that works is remembered in self.text_key.
InvokeReturns(hits, outcome) ==
  /\ calls' = CallLogged(outcome)
  /\ text_key' = IF rt_fallback # 0 THEN CallTextKey ELSE text_key
  /\ rt_fallback' = 0
  /\ docs_by_query' = Append(docs_by_query, hits)
  /\ IF rt_pos = Len(rt_queries)
     THEN /\ RetrieveReturns(published, recorded, docs_by_query', Len(rt_queries))
          /\ UNCHANGED rt_pos
     ELSE /\ rt_pos' = rt_pos + 1
          /\ UNCHANGED <<pc, heap, docs, streamVars>>
  /\ UNCHANGED <<rt_text_key, rt_queries, reranked_docs, mmr_docs, compressed_docs,
                 joinVars, rerankVars, configVars, compressVars, taskVars, llmVars, queryVars, vllmVars, relVars>>

\* The backend answers the query.
BackendReturns ==
  /\ pc = "retrieve_call"
  /\ CallTextKey = schema
  /\ \E hits \in HitLists : InvokeReturns(hits, "returned")

\* WeaviateNearTextRetriever.invoke: coll.query.near_text raises (the
\* backend cannot be reached); the error is logged and a RetrieveResult
\* without documents is returned.
NearTextQueryFails ==
  /\ pc = "retrieve_call"
  /\ InvokeReturns(<<>>, "transport_error")

\* retriever.invoke raises KeyError: the next untried field, or the last
\* error leaves the stage.
BackendSchemaError ==
  /\ pc = "retrieve_call"
  /\ CallTextKey # schema
  /\ calls' = CallLogged("KeyError")
  /\ rt_fallback' = NextFallback(rt_fallback)
  /\ pc' = IF NextFallback(rt_fallback) = 0 THEN "failed" ELSE pc
  /\ UNCHANGED <<text_key, rt_text_key, rt_queries, rt_pos, docs_by_query, heap, docs,
                 reranked_docs, mmr_docs, compressed_docs, joinVars, rerankVars,
                 streamVars, configVars, compressVars, taskVars, llmVars, queryVars, vllmVars, relVars>>

\* retriever.invoke raises anything else: the error leaves the stage.
BackendFails ==
  /\ pc = "retrieve_call"
  /\ calls' = CallLogged("raised")
  /\ pc' = "failed"
  /\ UNCHANGED <<text_key, rt_text_key, rt_queries, rt_pos, rt_fallback, docs_by_query,
                 heap, docs, reranked_docs, mmr_docs, compressed_docs, joinVars,
                 rerankVars, streamVars, configVars, compressVars, taskVars, llmVars, queryVars, vllmVars, relVars>>

RetrieveIdle ==
  /\ text_key = "content"
  /\ rt_text_key = ""
  /\ rt_queries = <<>>
  /\ rt_pos = 0
  /\ rt_fallback = 0
  /\ docs_by_query = <<>>
  /\ calls = <<>>

(***************************************************************************)
(* stage_rerank, rerank_docs and LLMReranker.arerank.  The LLM call of     *)
(* each batch is a suspension point of the task: one step per batch.       *)
(***************************************************************************)
EmptyFields == [k \in {} |-> 0]

\* rerank_cfg_value(self.reranker, ...) and type(self.reranker).__name__
RerankCfgFields ==
  IF reranker = "none" THEN EmptyFields
  ELSE IF reranker = "port" THEN [reranker |-> "Reranker"]
  ELSE [reranker |-> "LLMReranker",
        rerankTopN |-> rr_cfg.top_n,
        rerankMaxCandidates |-> rr_cfg.max_candidates,
        rerankBatchSize |-> rr_cfg.batch_size,
        rerankMaxDocChars |-> rr_cfg.max_doc_chars]

RerankInProgressEvent ==
  EventHead("rag_rerank.in_progress", question)
    @@ [hits |-> Len(docs), inputHits |-> Len(docs),
        inputChars |-> SumLen(heap, docs)]
    @@ RerankCfgFields

RerankCompletedEvent(result) ==
  EventHead("rag_rerank.completed", question)
    @@ [hits |-> Len(result), inputHits |-> Len(docs),
        outputHits |-> Len(result), inputChars |-> SumLen(heap, docs),
        outputChars |-> SumLen(heap, result)]
    @@ RerankCfgFields

\* The tail of stage_rerank once rerank_docs has returned `result`.
RerankReturns(pub, rec, result) ==
  /\ published' = PublishedAfter(pub, RerankCompletedEvent(result))
  /\ recorded' = RecordedAfter(rec, RerankCompletedEvent(result))
  /\ reranked_docs' = result
  /\ pc' = "mmr"

StageRerank ==
  /\ pc = "rerank"
  /\ UNCHANGED <<heap, docs, mmr_docs, compressed_docs, joinVars, configVars, compressVars, taskVars, llmVars, queryVars, vllmVars, relVars,
                 retrieveVars>>
  /\ IF docs = <<>>
     THEN /\ reranked_docs' = <<>>
          /\ pc' = "mmr"
          /\ UNCHANGED <<rerankVars, streamVars>>
     ELSE LET pub == PublishedAfter(published, RerankInProgressEvent)
              rec == RecordedAfter(recorded, RerankInProgressEvent)
          IN IF reranker = "none" \/ question = ""
             THEN \* no reranker, or arerank's `if not query: return list(docs)`
                  /\ RerankReturns(pub, rec, docs)
                  /\ UNCHANGED rerankVars
             ELSE IF reranker = "port"
             THEN \* any other reranker: it answers with some of the documents
                  /\ \E idx \in SUBSET (1..Len(docs)) :
                       RerankReturns(pub, rec, SubList(docs, idx, 1))
                  /\ UNCHANGED rerankVars
             ELSE /\ published' = pub
                  /\ recorded' = rec
                  /\ candidates' = Candidates(docs, rr_cfg)
                  /\ rr_pos' = 1
                  /\ scored' = <<>>
                  /\ items' = <<>>
                  /\ rr_error' = "none"
                  /\ pc' = "rerank_llm"
                  /\ UNCHANGED reranked_docs

\* What the model may answer for a batch: an object per known id and score
\* (the reason comes with the positive scores), an object naming an unknown
\* id, and an object without a score.
RawScores == {0 - 1, 1, ScoreOne + 1}

ResponseObjects(its) ==
  {[id |-> rid, score |-> Some(x), reason |-> IF x > 0 THEN "ok" ELSE ""] :
     rid \in ItemIds(its), x \in RawScores}
  \cup {[id |-> "zz", score |-> Some(1), reason |-> ""]}
  \cup {[id |-> its[1].rid, score |-> None, reason |-> ""]}

Responses(its) ==
  UNION {[1..n -> ResponseObjects(its)] : n \in 0..MaxResp}

Perms(S) ==
  {p \in [1..Cardinality(S) -> S] : \A i, j \in DOMAIN p : i # j => p[i] # p[j]}

\* The except branch of arerank, then of rerank_docs.
RerankFails ==
  /\ IF rr_cfg.fail_open
     THEN /\ rr_error' = "fail_open"
          /\ RerankReturns(published, recorded, FailOpenResult(docs, rr_cfg))
     ELSE \* arerank re-raises; rerank_docs catches and returns list(docs)
          /\ rr_error' = "raised"
          /\ RerankReturns(published, recorded, docs)
  /\ UNCHANGED <<heap, candidates, rr_pos, items, scored>>

RerankBatchOk(its, data) ==
  LET results == ParseObjects(data)
      a == ApplyResults(heap, scored, its, results)
      missing == ItemIds(its) \ {results[i].rid : i \in 1..Len(results)}
      step == Max(rr_cfg.batch_size, 1)
  IN \E order \in Perms(missing) :
       LET m == ApplyMissing(a.heap, a.scored, its, order)
       IN /\ heap' = m.heap
          /\ scored' = m.scored
          /\ items' = its
          /\ rr_pos' = rr_pos + step
          /\ rr_error' = "none"
          /\ UNCHANGED candidates
          /\ IF rr_pos + step > Len(candidates)
             THEN RerankReturns(published, recorded, SortAndCut(m.scored, rr_cfg))
             ELSE UNCHANGED <<pc, reranked_docs, streamVars>>

RerankBatch ==
  /\ pc = "rerank_llm"
  /\ UNCHANGED <<docs, mmr_docs, compressed_docs, joinVars, configVars, compressVars, taskVars, llmVars, queryVars, vllmVars, relVars,
                 retrieveVars>>
  /\ LET its == PrepareItems(heap, BatchAt(candidates, rr_pos, rr_cfg.batch_size),
                             rr_cfg)
     IN \/ \E data \in Responses(its) : RerankBatchOk(its, data)
        \/ \* _call_llm_async raises, or _parse_llm_json raises on the raw text
           RerankFails

\* _prepare_items applied to one batch.
PrepareBatch ==
  /\ pc = "prepare"
  /\ items' = PrepareItems(heap, candidates, rr_cfg)
  /\ pc' = "prepared"
  /\ UNCHANGED <<heap, docs, reranked_docs, mmr_docs, compressed_docs, joinVars,
                 candidates, rr_pos, scored, rr_error, streamVars, configVars, compressVars, taskVars, llmVars, queryVars, vllmVars, relVars,
                 retrieveVars>>

(***************************************************************************)
(* MMR selection.  Relevance is in units of 1/ScoreOne, lambda_mult in     *)
(* units of 1/LambdaOne, similarity thresholds in units of 1/SimOne; the   *)
(* embeddings of the model are 0/1 vectors with at most one 1, so that     *)
(* every cosine is 0 or 1.                                                 *)
(***************************************************************************)
LambdaOne == 10

SimOne == 100

\* MMRConfig(): lambda_mult 0.7, k 6, fetch_k 24, similarity_threshold 0.85
DefaultMMRConfig ==
  [lambda_mult |-> 7, k |-> 6, fetch_k |-> 24, similarity_threshold |-> Some(85)]

\* _doc_score: doc.score, else metadata __orig_score, else metadata score.
DocScore(d) == FirstOpt(d.score, FirstOpt(d.md_orig_score, d.md_score))

\* _get_relevance_value: a rerank_score that is present decides; when it is
\* not finite the result is None.
GetRelevanceValue(d) ==
  IF d.md_rerank_score # None
  THEN IF d.md_rerank_score[1] = "fin" THEN Some(d.md_rerank_score[2]) ELSE None
  ELSE IF DocScore(d) # None THEN Some(DocScore(d)[2]) ELSE None

SetMin(S) == CHOOSE x \in S : \A y \in S : x <= y

SetMax(S) == CHOOSE x \in S : \A y \in S : x >= y

\* _compute_default_rel_scores: relevance, else the min-max normalised
\* distance, else 0.
ComputeDefaultRelScores(h, cands) ==
  LET n == Len(cands)
      rel == [i \in 1..n |-> GetRelevanceValue(h[cands[i]])]
      withDist == {i \in 1..n : rel[i] = None /\ h[cands[i]].md_distance # None}
      dist == [i \in withDist |-> h[cands[i]].md_distance[2]]
      min_d == SetMin({dist[i] : i \in withDist})
      max_d == SetMax({dist[i] : i \in withDist})
      denom == max_d - min_d
  IN [i \in 1..n |->
        IF rel[i] # None THEN rel[i][1]
        ELSE IF i \in withDist
        THEN IF denom <= 0 THEN ScoreOne
             ELSE Max(0, Min(ScoreOne, ((max_d - dist[i]) * ScoreOne) \div denom))
        ELSE 0]

\* rel_scores = _compute_default_rel_scores(candidates), as mmr_select
\* calls it when no relevance callback is given.
ComputeRelScores ==
  /\ pc = "relevance"
  /\ rel_scores' = <<[candidates |-> reranked_docs,
                      scores |-> ComputeDefaultRelScores(heap, reranked_docs)]>>
  /\ pc' = "relevance_done"
  /\ UNCHANGED <<heap, docs, reranked_docs, mmr_docs, compressed_docs, joinVars,
                 rerankVars, streamVars, configVars, retrieveVars, compressVars,
                 taskVars, llmVars, queryVars, vllmVars>>

\* _get_embedding: metadata embedding, else metadata vector.
GetEmbedding(d) == FirstOpt(d.md_embedding, d.md_vector)

RECURSIVE DotFrom(_, _, _)
DotFrom(a, b, i) ==
  IF i > Len(a) \/ i > Len(b) THEN 0 ELSE a[i] * b[i] + DotFrom(a, b, i + 1)

\* The square root of a perfect square.
Isqrt(n) == CHOOSE r \in 0..n : r * r = n

\* _safe_cosine over zip(a, b)
SafeCosine(a, b) ==
  LET m == Min(Len(a), Len(b))
      na == DotFrom(SubSeq(a, 1, m), SubSeq(a, 1, m), 1)
      nb == DotFrom(SubSeq(b, 1, m), SubSeq(b, 1, m), 1)
  IN IF na <= 0 \/ nb <= 0 THEN 0 ELSE DotFrom(a, b, 1) \div Isqrt(na * nb)

\* _sim of mmr_select without a similarity callback.
Sim(h, cands, i, j) ==
  LET a == GetEmbedding(h[cands[i]])
      b == GetEmbedding(h[cands[j]])
  IN IF a = None \/ b = None THEN 0 ELSE SafeCosine(a[1], b[1])

RECURSIVE MaxSim(_, _, _, _)
MaxSim(h, cands, i, selected) ==
  IF selected = <<>> THEN 0
  ELSE Max(Sim(h, cands, i, selected[1]), MaxSim(h, cands, i, Tail(selected)))

MutMmrScore(cfg, rel, max_sim) == 0

\* lambda * rel - (1 - lambda) * max_sim, times LambdaOne * ScoreOne.
MmrScore(cfg, rel, max_sim) ==
  cfg.lambda_mult * rel - (LambdaOne - cfg.lambda_mult) * max_sim * ScoreOne

MutTooSimilar(cfg, max_sim) == FALSE

\* `if cfg.similarity_threshold is not None and max_sim >= threshold: continue`
TooSimilar(cfg, max_sim) ==
  cfg.similarity_threshold # None /\ max_sim * SimOne >= cfg.similarity_threshold[1]

\* The first index, in increasing order, of the greatest key among S.
ArgMaxFirst(S, key) ==
  CHOOSE i \in S : \A j \in S : key[i] > key[j] \/ (key[i] = key[j] /\ i <= j)

\* The while loop of mmr_select.
RECURSIVE MmrLoop(_, _, _, _, _, _)
MmrLoop(h, cands, cfg, rel, selected, k) ==
  LET remaining == (1..Len(cands)) \ Range(selected)
      open == {i \in remaining : ~TooSimilar(cfg, MaxSim(h, cands, i, selected))}
      score == [i \in open |-> MmrScore(cfg, rel[i], MaxSim(h, cands, i, selected))]
  IN IF remaining = {} \/ Len(selected) >= k \/ open = {} THEN selected
     ELSE MmrLoop(h, cands, cfg, rel, Append(selected, ArgMaxFirst(open, score)), k)

\* out[rank].metadata: mmr_rank = rank, mmr_lambda = lambda_mult
RECURSIVE AttachRanks(_, _, _, _)
AttachRanks(h, out, cfg, rank) ==
  IF rank > Len(out) THEN h
  ELSE AttachRanks([h EXCEPT ![out[rank]].md_mmr_rank = Some(rank),
                             ![out[rank]].md_mmr_lambda = Some(cfg.lambda_mult)],
                   out, cfg, rank + 1)

mmr_select(h, ds, cfg) ==
  LET k == Max(0, cfg.k)
      fetch_k == Max(k, cfg.fetch_k)
      cands == Take(ds, fetch_k)
      rel == ComputeDefaultRelScores(h, cands)
      first == ArgMaxFirst(1..Len(cands), rel)
      selected == MmrLoop(h, cands, cfg, rel, <<first>>, k)
      out == [r \in 1..Len(selected) |-> cands[selected[r]]]
  IN IF ds = <<>> \/ k = 0 THEN [out |-> <<>>, heap |-> h]
     ELSE [out |-> out, heap |-> AttachRanks(h, out, cfg, 1)]

(***************************************************************************)
(* stage_mmr.                                                              *)
(***************************************************************************)
\* A value of the request's rag mapping: the key is absent, null, a number,
\* or something int() and float() reject.
Unset == <<"unset">>

Null == <<"null">>

Num(n) == <<"num", n>>

Bad == <<"bad">>

\* get_override(rag_cfg, key, default=UNSET), then the pipeline's attribute
\* when the key is absent: None or a number or a malformed value.
OverrideOr(raw, attr) ==
  IF raw = Unset THEN (IF attr = None THEN Null ELSE Num(attr[1])) ELSE raw

\* list(state.reranked_docs or state.docs or [])
MmrInput == IF reranked_docs # <<>> THEN reranked_docs ELSE docs

MmrRaw ==
  [k |-> OverrideOr(rag.mmrK, mmr.k),
   fetch_k |-> OverrideOr(rag.mmrFetchK, mmr.fetch_k),
   lambda_mult |-> OverrideOr(rag.mmrLambda, mmr.lambda_mult),
   similarity_threshold |-> OverrideOr(rag.mmrSimilarityThreshold,
                                       mmr.similarity_threshold)]

\* int(...) or float(...) raises on one of the raw values.
MmrConfigRaises == \E f \in DOMAIN MmrRaw : MmrRaw[f] = Bad

\* The MMRConfig stage_mmr builds for n input documents.
StageMmrConfig(n) ==
  LET k == IF MmrRaw.k = Null THEN n ELSE Max(0, MmrRaw.k[2])
      f == IF MmrRaw.fetch_k = Null THEN n ELSE Max(0, MmrRaw.fetch_k[2])
  IN [k |-> k,
      fetch_k |-> IF f < k THEN k ELSE f,
      lambda_mult |-> IF MmrRaw.lambda_mult = Null THEN DefaultMMRConfig.lambda_mult
                      ELSE MmrRaw.lambda_mult[2],
      similarity_threshold |-> IF MmrRaw.similarity_threshold = Null THEN None
                               ELSE Some(MmrRaw.similarity_threshold[2])]

MmrInProgressEvent ==
  EventHead("rag_mmr.in_progress", question)
    @@ [hits |-> Len(MmrInput), inputHits |-> Len(MmrInput),
        inputChars |-> SumLen(heap, MmrInput)]

MmrCompletedEvent(out, cfg) ==
  EventHead("rag_mmr.completed", question)
    @@ [hits |-> Len(out), inputHits |-> Len(MmrInput), outputHits |-> Len(out),
        inputChars |-> SumLen(heap, MmrInput), outputChars |-> SumLen(heap, out),
        mmrK |-> cfg.k, mmrFetchK |-> cfg.fetch_k, mmrLambda |-> cfg.lambda_mult]
    @@ (IF cfg.similarity_threshold = None THEN EmptyFields
        ELSE [mmrSimilarityThreshold |-> cfg.similarity_threshold[1]])

StageMmr ==
  /\ pc = "mmr"
  /\ pc' = "compress"
  /\ UNCHANGED <<docs, reranked_docs, compressed_docs, joinVars, rerankVars,
                 configVars, compressVars, taskVars, llmVars, queryVars, vllmVars, relVars, retrieveVars>>
  /\ IF MmrInput = <<>>
     THEN /\ mmr_docs' = <<>>
          /\ UNCHANGED <<heap, streamVars>>
     ELSE LET pub == PublishedAfter(published, MmrInProgressEvent)
              rec == RecordedAfter(recorded, MmrInProgressEvent)
          IN IF MmrConfigRaises
             THEN \* the except branch: mmr_docs = reranked_docs
                  /\ mmr_docs' = MmrInput
                  /\ published' = pub
                  /\ recorded' = rec
                  /\ UNCHANGED heap
             ELSE LET cfg == StageMmrConfig(Len(MmrInput))
                      r == mmr_select(heap, MmrInput, cfg)
                  IN /\ mmr_docs' = r.out
                     /\ heap' = r.heap
                     /\ published' = PublishedAfter(pub, MmrCompletedEvent(r.out, cfg))
                     /\ recorded' = RecordedAfter(rec, MmrCompletedEvent(r.out, cfg))

\* MMRPostprocessor(cfg): the configuration the postprocessor was built with.
PostprocessorCfg ==
  [k |-> mmr.k[1], fetch_k |-> mmr.fetch_k[1], lambda_mult |-> mmr.lambda_mult[1],
   similarity_threshold |-> mmr.similarity_threshold]

\* MMRPostprocessor.apply(query, docs) without callbacks: mmr_select.
MmrApply ==
  /\ pc = "mmr_apply"
  /\ LET r == mmr_select(heap, reranked_docs, PostprocessorCfg)
     IN /\ mmr_docs' = r.out
        /\ heap' = r.heap
  /\ pc' = "mmr_applied"
  /\ UNCHANGED <<docs, reranked_docs, compressed_docs, joinVars, rerankVars,
                 streamVars, configVars, compressVars, taskVars, llmVars, queryVars, vllmVars, relVars, retrieveVars>>

(***************************************************************************)
(* HeuristicCompressor.compress_docs.  The embeddings filter is a port:    *)
(* for each threshold it answers with a sub-list of the documents or       *)
(* raises; `filtered` is the first answer that is long enough, or every    *)
(* document when there is none.  Scores are finite or -inf.                *)
(***************************************************************************)
UnknownRank == 1000000000

\* HeuristicCompressorConfig(max_context=mc) with the defaults of the class.
HeuristicCompressorConfig(mc) ==
  [max_context |-> mc, keyword_keep_limit |-> 3, min_docs_after_filter |-> 2,
   fallback_keep |-> 8]

\* kw_tokens: no stop token is in the model's alphabet.
kw_tokens(q) ==
  LET nq == normalize_query(q, "full")
  IN RunsFrom(nq, 1, FALSE, 2, "") \o RunsFrom(nq, 1, TRUE, 2, "")

\* Python's `t in blob` on strings.
InText(t, blob) ==
  \E i \in 0..(Len(blob) - Len(t)) : SubSeq(blob, i + 1, i + Len(t)) = t

\* kw_hit: any token is in the lower-cased text, filename and filename_kw.
kw_hit(toks, d) ==
  LET blob == LowerFrom(d.page_content \o " " \o d.md_filename \o " "
                          \o d.md_filename_kw, 1)
  IN \E i \in 1..Len(toks) : InText(LowerFrom(toks[i], 1), blob)

\* must_keep: the first keyword_keep_limit documents with a keyword hit.
RECURSIVE MustKeep(_, _, _, _, _)
MustKeep(h, ds, toks, limit, acc) ==
  IF ds = <<>> \/ Len(acc) >= limit THEN acc
  ELSE MustKeep(h, Tail(ds), toks, limit,
                IF kw_hit(toks, h[ds[1]]) THEN Append(acc, ds[1]) ELSE acc)

\* What `filtered` can be: an answer of the filter with at least
\* min_docs_after_filter (and at least one) documents, or list(docs) when the
\* filter is unavailable, raises, or answers too few at every threshold.
FilterOutcomes(ds, cfg) ==
  {ds} \cup
  {SubList(ds, idx, 1) : idx \in {x \in SUBSET (1..Len(ds)) :
      x # {} /\ Cardinality(x) >= cfg.min_docs_after_filter}}

\* has_rerank: some document has metadata rerank_score.
has_rerank(h, ds) == \E i \in 1..Len(ds) : h[ds[i]].md_rerank_score # None

\* rerank_pos.get(key, 10**9): the first input position (from 0) of the key.
rerank_pos(h, ds, key) ==
  LET at == {i \in 1..Len(ds) : doc_stable_key(h[ds[i]], ds[i]) = key}
  IN IF at = {} THEN UnknownRank
     ELSE (CHOOSE i \in at : \A j \in at : i <= j) - 1

\* A float as a sort key: -inf (and an unknown score) below every number.
FloatKey(v) == IF v = None \/ v[1] # "fin" THEN 0 - 1 ELSE v[2]

\* doc_rerank_score: metadata rerank_score, else -inf.
doc_rerank_score(d) == FloatKey(d.md_rerank_score)

\* doc_score: Document.score, metadata __orig_score, score, 1 - distance, -inf.
doc_score(d) ==
  IF d.score # None THEN FloatKey(d.score)
  ELSE IF d.md_orig_score # None THEN FloatKey(d.md_orig_score)
  ELSE IF d.md_score # None THEN FloatKey(d.md_score)
  ELSE IF d.md_distance # None /\ d.md_distance[1] = "fin"
       THEN ScoreOne - d.md_distance[2]
  ELSE 0 - 1

\* doc_rank: metadata __orig_rank, else 10**9.
doc_rank(d) == IF d.md_orig_rank # None THEN d.md_orig_rank[1] ELSE UnknownRank

\* The sort key of a kept document: (-score, position).
KeptKey(h, ds, rr, o) ==
  IF rr THEN <<0 - doc_rerank_score(h[o]), rerank_pos(h, ds, doc_stable_key(h[o], o))>>
  ELSE <<0 - doc_score(h[o]), doc_rank(h[o])>>

MutKeyLess(a, b) == FALSE

KeyLess(a, b) == a[1] < b[1] \/ (a[1] = b[1] /\ a[2] < b[2])

\* sorted(kept, key=...): stable, each element after those not above it.
RECURSIVE InsertKept(_, _, _, _, _)
InsertKept(h, ds, rr, sorted, o) ==
  IF sorted = <<>> THEN <<o>>
  ELSE IF KeyLess(KeptKey(h, ds, rr, o), KeptKey(h, ds, rr, sorted[1]))
       THEN <<o>> \o sorted
       ELSE <<sorted[1]>> \o InsertKept(h, ds, rr, Tail(sorted), o)

RECURSIVE SortKept(_, _, _, _, _)
SortKept(h, ds, rr, ks, acc) ==
  IF ks = <<>> THEN acc
  ELSE SortKept(h, ds, rr, Tail(ks), InsertKept(h, ds, rr, acc, ks[1]))

\* kept: each document whose stable key is not yet in keep_set.
RECURSIVE KeepFrom(_, _, _)
KeepFrom(h, s, keep_set) ==
  IF s = <<>> THEN <<>>
  ELSE LET k == doc_stable_key(h[s[1]], s[1])
       IN IF k \in keep_set THEN KeepFrom(h, Tail(s), keep_set)
          ELSE <<s[1]>> \o KeepFrom(h, Tail(s), keep_set \cup {k})

\* anchor, then the keyword guard, then the filtered documents; then sorted.
KeptList(h, ds, must_keep, filtered) ==
  LET anchor == IF ds = <<>> THEN <<>> ELSE <<ds[1]>>
      ks == KeepFrom(h, anchor \o must_keep \o filtered, {})
  IN SortKept(h, ds, has_rerank(h, ds), ks, <<>>)

MutOverContext(mc, total, ln) == FALSE

\* `if max_context is not None and total + ln > max_context: continue`
OverContext(mc, total, ln) == mc # None /\ total + ln > mc[1]

\* The trim to the context budget.
RECURSIVE TrimFrom(_, _, _, _)
TrimFrom(h, ks, total, mc) ==
  IF ks = <<>> THEN <<>>
  ELSE LET ln == Len(h[ks[1]].page_content)
       IN IF OverContext(mc, total, ln) THEN TrimFrom(h, Tail(ks), total, mc)
          ELSE <<ks[1]>> \o TrimFrom(h, Tail(ks), total + ln, mc)

\* `if not out: out = kept[: min(len(kept), fallback_keep)]`
FallbackKeep(ks, out, cfg) ==
  IF out = <<>> THEN SliceTo(ks, Min(Len(ks), cfg.fallback_keep)) ELSE out

\* The output of compress_docs for the sorted kept list ks.
heuristic_out(h, ks, cfg) == FallbackKeep(ks, TrimFrom(h, ks, 0, cfg.max_context), cfg)

\* LLMCompressorConfig(): the defaults the model uses.
LLMCompressorConfig ==
  [per_doc_max_chars |-> 3500, output_max_chars |-> 1200, min_keep_chars |-> 40,
   fail_open |-> TRUE]

CompressIdle ==
  /\ hc_cfg = HeuristicCompressorConfig(None)
  /\ kept = <<>>
  /\ hc_out = <<>>
  /\ heuristic_hits = 0
  /\ llm_applied = FALSE
  /\ llm_compressor = "none"

TaskIdle ==
  /\ llm_async = FALSE
  /\ abandoned = {}

RelIdle == rel_scores = <<>>

VllmIdle ==
  /\ vs_chunks = <<>>
  /\ vs_pos = 0
  /\ vs_callbacks = <<>>
  /\ vs_end_called = FALSE
  /\ vs_state = [at |-> "idle", exc |-> ""]

QueryIdle ==
  /\ normalized = <<>>
  /\ expanded = <<>>

LlmIdle ==
  /\ lc_cfg = LLMCompressorConfig
  /\ lc_docs = <<>>
  /\ lc_out = <<>>
  /\ lc_calls = <<>>
  /\ lc_state = "idle"

\* HeuristicCompressor(cfg=hc_cfg).compress_docs(query=question, docs=mmr_docs)
HeuristicCompress ==
  /\ pc = "heuristic"
  /\ \E must_keep \in {MustKeep(heap, mmr_docs, kw_tokens(question),
                                 hc_cfg.keyword_keep_limit, <<>>)} :
     \E filtered \in FilterOutcomes(mmr_docs, hc_cfg) :
     \E ks \in {KeptList(heap, mmr_docs, must_keep, filtered)} :
       /\ kept' = ks
       /\ compressed_docs' = heuristic_out(heap, ks, hc_cfg)
  /\ pc' = "heuristic_done"
  /\ UNCHANGED <<heap, docs, reranked_docs, mmr_docs, joinVars, rerankVars, streamVars,
                 configVars, retrieveVars, hc_cfg, hc_out, heuristic_hits, llm_applied,
                 llm_compressor, taskVars, llmVars, queryVars, vllmVars, relVars>>

(***************************************************************************)
(* stage_compress.  The two-tier postprocessor it calls runs the heuristic *)
(* compressor and then, on the trigger, the LLM compressor, whose calls    *)
(* are a suspension point of the task.                                     *)
(***************************************************************************)
\* list(state.mmr_docs or state.reranked_docs or state.docs or [])
CompressInput ==
  IF mmr_docs # <<>> THEN mmr_docs
  ELSE IF reranked_docs # <<>> THEN reranked_docs ELSE docs

\* The maxContext override: a number is taken; an absent, null or malformed
\* one leaves self.max_context.
CompressMaxContext ==
  IF rag.maxContext[1] = "num" THEN rag.maxContext[2] ELSE max_context

\* The useLlm override: bool(raw) unless it is absent or null.
CompressUseLlm ==
  IF rag.useLlm \in {Unset, Null} THEN llm_compressor # "none"
  ELSE IF rag.useLlm[1] = "num" THEN rag.useLlm[2] # 0 ELSE TRUE

CompressInProgressEvent ==
  EventHead("rag_compress.in_progress", question)
    @@ [hits |-> Len(CompressInput), inputHits |-> Len(CompressInput),
        inputChars |-> SumLen(heap, CompressInput), useLlm |-> CompressUseLlm]
    @@ (IF rag.maxContext = Null THEN EmptyFields
        ELSE [maxContext |-> CompressMaxContext])

CompressCompletedEvent(h, out, hits, applied) ==
  EventHead("rag_compress.completed", question)
    @@ [hits |-> Len(out), inputHits |-> Len(CompressInput), outputHits |-> Len(out),
        inputChars |-> SumLen(heap, CompressInput), outputChars |-> SumLen(h, out),
        useLlm |-> CompressUseLlm, heuristicHits |-> hits, llmApplied |-> applied]
    @@ (IF rag.maxContext = Null THEN EmptyFields
        ELSE [maxContext |-> CompressMaxContext])

\* The LLM tier runs when use_llm is set and an adapter is given, the
\* heuristic output has at least two documents and one rerank_score,
\* max_context is positive and the output fills 0.7 of it.
LlmTrigger(h, out) ==
  /\ CompressUseLlm
  /\ llm_compressor # "none"
  /\ Len(out) >= 2
  /\ CompressMaxContext > 0
  /\ \E i \in 1..Len(out) : h[out[i]].md_rerank_score # None
  /\ 10 * SumLen(h, out) >= 7 * CompressMaxContext

\* The tail of stage_compress once the postprocessor has returned.
CompressReturns(h, out, hits, applied) ==
  /\ published' = PublishedAfter(published, CompressCompletedEvent(h, out, hits, applied))
  /\ recorded' = RecordedAfter(recorded, CompressCompletedEvent(h, out, hits, applied))
  /\ compressed_docs' = out
  /\ heuristic_hits' = hits
  /\ llm_applied' = applied
  /\ pc' = "join"

StageCompress ==
  /\ pc = "compress"
  /\ UNCHANGED <<docs, reranked_docs, mmr_docs, joinVars, rerankVars, configVars,
                 retrieveVars, llm_compressor, taskVars, llmVars, queryVars, vllmVars, relVars, heap>>
  /\ IF CompressInput = <<>>
     THEN /\ compressed_docs' = <<>>
          /\ heuristic_hits' = 0
          /\ llm_applied' = FALSE
          /\ pc' = "join"
          /\ UNCHANGED <<hc_cfg, kept, hc_out, streamVars>>
     ELSE LET cfg == HeuristicCompressorConfig(Some(CompressMaxContext))
              pub == PublishedAfter(published, CompressInProgressEvent)
              rec == RecordedAfter(recorded, CompressInProgressEvent)
          IN /\ hc_cfg' = cfg
             /\ \E must_keep \in {MustKeep(heap, CompressInput, kw_tokens(question),
                                           cfg.keyword_keep_limit, <<>>)} :
                \E filtered \in FilterOutcomes(CompressInput, cfg) :
                \E ks \in {KeptList(heap, CompressInput, must_keep, filtered)} :
                \E out \in {heuristic_out(heap, ks, cfg)} :
                  /\ kept' = ks
                  /\ IF LlmTrigger(heap, out)
                     THEN /\ hc_out' = out
                          /\ published' = pub
                          /\ recorded' = rec
                          /\ pc' = "compress_llm"
                          /\ UNCHANGED <<compressed_docs, heuristic_hits, llm_applied>>
                     ELSE /\ hc_out' = <<>>
                          /\ published' = PublishedAfter(pub,
                               CompressCompletedEvent(heap, out, Len(out), FALSE))
                          /\ recorded' = RecordedAfter(rec,
                               CompressCompletedEvent(heap, out, Len(out), FALSE))
                          /\ compressed_docs' = out
                          /\ heuristic_hits' = Len(out)
                          /\ llm_applied' = FALSE
                          /\ pc' = "join"

\* Document(page_content=kept_text, metadata=md): a new object with the
\* metadata of d and compressed = True.
CompressedDoc(d, kept_text) ==
  [f \in DOMAIN BlankDoc |->
     IF f = "page_content" THEN kept_text
     ELSE IF f = "md_compressed" THEN TRUE
     ELSE IF SubSeq(f, 1, 3) = "md_" THEN d[f] ELSE BlankDoc[f]]

\* What the model may return as `kept` for a passage: a part of it, or a
\* text too short for min_keep_chars (the original document is kept).
KeptTexts(text) == {"", SubSeq(text, 1, Len(text) - 1)}

\* acompress_docs from document i of ds on: the heap and the output.
RECURSIVE LlmCompressFrom(_, _, _, _)
LlmCompressFrom(h, ds, texts, i) ==
  IF i > Len(ds) THEN [heap |-> h, out |-> <<>>]
  ELSE IF texts[i] = ""
       THEN LET r == LlmCompressFrom(h, ds, texts, i + 1)
            IN [heap |-> r.heap, out |-> <<ds[i]>> \o r.out]
       ELSE LET h2 == Append(h, CompressedDoc(h[ds[i]], texts[i]))
                r == LlmCompressFrom(h2, ds, texts, i + 1)
            IN [heap |-> r.heap, out |-> <<Len(h2)>> \o r.out]

\* The LLM tier answers for every document of the heuristic output.
CompressLlm ==
  /\ pc = "compress_llm"
  /\ \E texts \in [1..Len(hc_out) ->
                      UNION {KeptTexts(heap[o].page_content) : o \in Range(hc_out)}] :
       /\ \A i \in 1..Len(hc_out) : texts[i] \in KeptTexts(heap[hc_out[i]].page_content)
       /\ \E r \in {LlmCompressFrom(heap, hc_out, texts, 1)} :
            /\ heap' = r.heap
            /\ CompressReturns(r.heap, r.out, Len(hc_out), r.out # hc_out)
  /\ hc_out' = <<>>
  /\ UNCHANGED <<docs, reranked_docs, mmr_docs, joinVars, rerankVars, configVars,
                 retrieveVars, hc_cfg, kept, llm_compressor, taskVars, llmVars, queryVars, vllmVars, relVars>>

(***************************************************************************)
(* LLMContextualCompressor.compress_docs, the synchronous entry point.     *)
(* A raw answer of the model is one of five forms of text:                 *)
(*   "empty"    the empty string;                                          *)
(*   "json"     a JSON text, whose value is `value`;                       *)
(*   "fenced"   a JSON object with text before or after it (a markdown     *)
(*              fence, a sentence), whose value is `value`;                *)
(*   "broken"   a text with "{" before a "}" that is no JSON in between;   *)
(*   "plain"    a text without braces that is no JSON.                     *)
(* A JSON value is a dict with the keys kept and dropped, each missing,    *)
(* null or a string, or a value that is no dict (a list).                  *)
(***************************************************************************)
JStr(s) == <<"str", s>>

JDict(kept_value, dropped_value) ==
  [kind |-> "dict", kept |-> kept_value, dropped |-> dropped_value]

JList == [kind |-> "list"]

\* The answers of the model that are considered.
KeptValues == {<<"unset">>, <<"null">>, JStr(""), JStr(" a "), JStr("abcd"), JStr("abcdef")}

RawAnswers ==
  {[form |-> f] : f \in {"empty", "broken", "plain"}}
    \cup {[form |-> "json", value |-> JList]}
    \cup {[form |-> f, value |-> JDict(k, <<"null">>)] :
             f \in {"json", "fenced"}, k \in KeptValues}

\* _truncate ("~" stands for the one-character ellipsis).
Truncate(text, max_chars) ==
  IF Len(text) <= max_chars THEN text
  ELSE SubSeq(text, 1, max_chars - 1) \o "~"

\* _doc_text
DocText(d) == d.page_content

\* _parse_json: None for an empty text, json.loads of the whole text, else
\* json.loads of text[first "{" : last "}"], else None.
ParseJson(raw) ==
  IF raw.form = "empty" THEN None
  ELSE IF raw.form = "json" THEN Some(raw.value)
  ELSE IF raw.form = "fenced" THEN Some(raw.value)
  ELSE None

\* payload.get("kept") when the payload is a dict, else None.
PayloadKept(payload) ==
  IF payload # None /\ payload[1].kind = "dict" /\ payload[1].kept # <<"unset">>
  THEN payload[1].kept
  ELSE <<"null">>

\* _truncate(str(kept or "").strip(), output_max_chars)
KeptText(kept_value, cfg) ==
  Truncate(Strip(IF kept_value = <<"null">> THEN "" ELSE kept_value[2]),
           cfg.output_max_chars)

\* Guardrail: len(kept_text) < min_keep_chars
TooShort(kept_text, cfg) == Len(kept_text) < cfg.min_keep_chars

\* One turn of the loop of compress_docs: the document at position
\* len(out) + 1, the LLM call and what follows from its result.
CompressDoc ==
  /\ lc_state = "running"
  /\ Len(lc_out) < Len(lc_docs)
  /\ LET doc      == lc_docs[Len(lc_out) + 1]
         original == DocText(heap[doc])
         passage  == Truncate(original, lc_cfg.per_doc_max_chars)
     IN IF Strip(passage) = ""
        THEN /\ lc_out' = Append(lc_out, doc)
             /\ lc_calls' = Append(lc_calls, [original |-> original, call |-> "none"])
             /\ UNCHANGED <<heap, lc_state>>
        ELSE \/ \* self._call_llm raises
                /\ lc_calls' = Append(lc_calls, [original |-> original, call |-> "raised"])
                /\ IF lc_cfg.fail_open
                   THEN /\ lc_out' = Append(lc_out, doc)
                        /\ UNCHANGED lc_state
                   ELSE /\ lc_state' = "raised"
                        /\ UNCHANGED lc_out
                /\ UNCHANGED heap
             \/ \* self._call_llm returns raw
                \E raw \in RawAnswers :
                  LET payload   == ParseJson(raw)
                      kept_text == KeptText(PayloadKept(payload), lc_cfg)
                  IN /\ lc_calls' = Append(lc_calls,
                                        [original |-> original, call |-> "returned",
                                         raw |-> raw, payload |-> payload,
                                         kept_text |-> kept_text])
                     /\ IF TooShort(kept_text, lc_cfg)
                        THEN /\ lc_out' = Append(lc_out, doc)
                             /\ UNCHANGED heap
                        ELSE /\ heap' = Append(heap, CompressedDoc(heap[doc], kept_text))
                             /\ lc_out' = Append(lc_out, Len(heap) + 1)
                     /\ UNCHANGED lc_state
  /\ UNCHANGED <<pc, docs, reranked_docs, mmr_docs, compressed_docs, joinVars, rerankVars,
                 streamVars, configVars, retrieveVars, compressVars, taskVars,
                 lc_cfg, lc_docs, queryVars, vllmVars, relVars>>

\* `return out` once the loop is over.
CompressDocsReturns ==
  /\ lc_state = "running"
  /\ Len(lc_out) = Len(lc_docs)
  /\ lc_state' = "returned"
  /\ UNCHANGED <<pc, heap, docs, reranked_docs, mmr_docs, compressed_docs, joinVars,
                 rerankVars, streamVars, configVars, retrieveVars, compressVars, taskVars,
                 lc_cfg, lc_docs, lc_out, lc_calls, queryVars, vllmVars, relVars>>

(***************************************************************************)
(* VllmGrpcClient.astream: the chunks of the server stream are forwarded   *)
(* to the callback handlers of the RunnableConfig.  A handler is the       *)
(* record of the calls it received: the tokens, the texts of the           *)
(* LLMResults given to on_llm_end, the messages of the exceptions given to *)
(* on_llm_error.                                                           *)
(***************************************************************************)
NewHandler == [tokens |-> <<>>, ends |-> <<>>, errors |-> <<>>]

\* "".join(output_parts): the non-empty deltas among the first n chunks.
RECURSIVE OutputText(_, _)
OutputText(chunks, n) ==
  IF n = 0 THEN ""
  ELSE OutputText(chunks, n - 1)
         \o (IF chunks[n].type = "output_text.delta" THEN chunks[n].text ELSE "")

\* for cb in callbacks: await on_token(delta, ...)
OnLlmNewToken(cbs, delta) ==
  [i \in DOMAIN cbs |-> [cbs[i] EXCEPT !.tokens = Append(@, delta)]]

\* for cb in callbacks: on_end(llm_result, ...)
OnLlmEnd(cbs, output_text) ==
  [i \in DOMAIN cbs |-> [cbs[i] EXCEPT !.ends = Append(@, output_text)]]

\* One turn of `async for chunk in stub.ChatCompletionStream(...)`.
AstreamChunk ==
  /\ vs_state.at = "streaming"
  /\ vs_pos < Len(vs_chunks)
  /\ vs_pos' = vs_pos + 1
  /\ LET chunk == vs_chunks[vs_pos + 1]
     IN IF chunk.type = "output_text.delta"
        THEN /\ vs_callbacks' = IF chunk.text = "" THEN vs_callbacks
                                ELSE OnLlmNewToken(vs_callbacks, chunk.text)
             /\ UNCHANGED <<vs_end_called, vs_state>>
        ELSE IF chunk.type = "output_text.done"
        THEN /\ vs_callbacks' = IF vs_end_called THEN vs_callbacks
                                ELSE OnLlmEnd(vs_callbacks,
                                              OutputText(vs_chunks, vs_pos + 1))
             /\ vs_end_called' = TRUE
             /\ vs_state' = [vs_state EXCEPT !.at = "finishing"]
        ELSE \* no branch for any other chunk type
             UNCHANGED <<vs_callbacks, vs_end_called, vs_state>>
  /\ UNCHANGED <<pc, heap, docs, reranked_docs, mmr_docs, compressed_docs, joinVars,
                 rerankVars, streamVars, configVars, retrieveVars, compressVars,
                 taskVars, llmVars, queryVars, relVars, vs_chunks>>

\* The stream is exhausted: the loop ends.
AstreamExhausted ==
  /\ vs_state.at = "streaming"
  /\ vs_pos = Len(vs_chunks)
  /\ vs_state' = [vs_state EXCEPT !.at = "finishing"]
  /\ UNCHANGED <<pc, heap, docs, reranked_docs, mmr_docs, compressed_docs, joinVars,
                 rerankVars, streamVars, configVars, retrieveVars, compressVars,
                 taskVars, llmVars, queryVars, relVars, vs_chunks, vs_pos, vs_callbacks,
                 vs_end_called>>

\* The RPC itself fails (grpc.aio.AioRpcError out of the iteration).
AstreamRpcError ==
  /\ vs_state.at = "streaming"
  /\ vs_state' = [at |-> "raised", exc |-> "AioRpcError"]
  /\ UNCHANGED <<pc, heap, docs, reranked_docs, mmr_docs, compressed_docs, joinVars,
                 rerankVars, streamVars, configVars, retrieveVars, compressVars,
                 taskVars, llmVars, queryVars, relVars, vs_chunks, vs_pos, vs_callbacks,
                 vs_end_called>>

\* After the loop: on_llm_end once if no done chunk fired it, then return.
AstreamReturns ==
  /\ vs_state.at = "finishing"
  /\ vs_callbacks' = IF vs_end_called THEN vs_callbacks
                     ELSE OnLlmEnd(vs_callbacks, OutputText(vs_chunks, vs_pos))
  /\ vs_state' = [vs_state EXCEPT !.at = "returned"]
  /\ UNCHANGED <<pc, heap, docs, reranked_docs, mmr_docs, compressed_docs, joinVars,
                 rerankVars, streamVars, configVars, retrieveVars, compressVars,
                 taskVars, llmVars, queryVars, relVars, vs_chunks, vs_pos, vs_end_called>>

(***************************************************************************)
(* Cancellation of the pipeline task.  task.cancel() raises CancelledError *)
(* at the await the task is suspended in: the LLM call of a rerank batch   *)
(* or of the compressor.  retriever.invoke is a synchronous call and no    *)
(* suspension point.                                                       *)
(***************************************************************************)
\* `except Exception`: asyncio.CancelledError is a BaseException.
ExceptException(exc) == exc # "CancelledError"

\* await asyncio.to_thread(self._call_llm, ...): the awaiting task stops
\* waiting, the worker thread runs the call to its end.  An adapter that
\* awaits llm.ainvoke has the call cancelled with it.
CallLeftRunning == ~llm_async

Cancel ==
  /\ pc \in {"rerank_llm", "compress_llm"}
  /\ IF pc = "rerank_llm" /\ ExceptException("CancelledError")
     THEN \* arerank's and rerank_docs' handlers would take it for a failure
          /\ RerankFails
          /\ UNCHANGED <<hc_out, abandoned>>
     ELSE /\ pc' = "cancelled"
          /\ abandoned' = IF CallLeftRunning THEN abandoned \cup {pc} ELSE abandoned
          /\ hc_out' = <<>>
          /\ UNCHANGED <<heap, reranked_docs, rerankVars, streamVars>>
  /\ UNCHANGED <<docs, mmr_docs, compressed_docs, joinVars, configVars, retrieveVars,
                 hc_cfg, kept, heuristic_hits, llm_applied, llm_compressor, llm_async, llmVars, queryVars, vllmVars, relVars>>

\* The position a stage hands the pipeline to when it returns.
StageReturnsTo ==
  [rag_retrieve |-> "rerank", rag_rerank |-> "mmr", rag_mmr |-> "compress"]

(***************************************************************************)
(* join_context on its own: any documents, any budget.                     *)
(***************************************************************************)
Contents == {"", "ab", "abcd"}

JoinDocs ==
  {[BlankDoc EXCEPT !.page_content = c, !.title = t] :
     c \in Contents, t \in {"", "Doc"}}

InitJoin ==
  /\ pc = "join"
  /\ \E n \in 0..MaxDocs :
       /\ heap \in [1..n -> JoinDocs]
       /\ compressed_docs = [i \in 1..n |-> i]
  /\ max_context \in 0..MaxBudget
  /\ docs = <<>>
  /\ reranked_docs = <<>>
  /\ mmr_docs = <<>>
  /\ buf = <<>>
  /\ context = ""
  /\ citations = <<>>
  /\ question = "q"
  /\ stream = NoStream
  /\ published = <<>>
  /\ recorded = <<>>
  /\ reranker = "none"
  /\ rr_cfg = DefaultRerankConfig
  /\ RerankIdle
  /\ rag = NoRag
  /\ defaults = [top_k |-> 2, mmq |-> 1]
  /\ schema = "content"
  /\ mmr = NoMmr
  /\ RetrieveIdle
  /\ CompressIdle
  /\ TaskIdle
  /\ LlmIdle
  /\ QueryIdle
  /\ VllmIdle
  /\ RelIdle

SpecJoin == InitJoin /\ [][StageJoinContext]_vars

JoinDone == pc = "prompt"

\* C1: the documents packed by join_context total at most max_context
\* characters; packing keeps the input order and whole documents; a document
\* is skipped only when adding it to what was packed before it would exceed
\* the budget, so a later document that still fits is packed.
C1_BudgetSafety ==
  JoinDone =>
    LET packedIdx == {buf[j].idx : j \in 1..Len(buf)}
        before(i) == SelectSeq(buf, LAMBDA e : e.idx < i)
        total(b) == SumLen(heap, [j \in 1..Len(b) |-> b[j].doc])
    IN /\ total(buf) <= max_context
       /\ \A j \in 1..Len(buf) :
            /\ buf[j].idx \in 1..Len(compressed_docs)
            /\ buf[j].doc = compressed_docs[buf[j].idx]
            /\ buf[j].text = Block(heap[buf[j].doc])
            /\ j > 1 => buf[j - 1].idx < buf[j].idx
       /\ \A i \in 1..Len(compressed_docs) :
            i \notin packedIdx <=>
              total(before(i)) + Len(heap[compressed_docs[i]].page_content)
                > max_context

\* A document is skipped for budget and a later, shorter one is still packed.
C1_Witness ==
  /\ JoinDone
  /\ \E i, k \in 1..Len(compressed_docs) :
       /\ i < k
       /\ i \notin {buf[j].idx : j \in 1..Len(buf)}
       /\ k \in {buf[j].idx : j \in 1..Len(buf)}
       /\ \E m \in 1..Len(compressed_docs) :
            m < i /\ m \in {buf[j].idx : j \in 1..Len(buf)}

\* C4: one citation per packed document, none for a skipped one; the i-th
\* packed document carries source_id "S<i>", with no gaps.
C4_CitationIds ==
  JoinDone =>
    /\ Len(citations) = Len(buf)
    /\ \A j \in 1..Len(citations) :
         /\ citations[j].source_id = "S" \o ToString(j)
         /\ citations[j].id = citations[j].source_id
         /\ citations[j].chunk_id = CitationChunkId(heap[buf[j].doc])
         /\ citations[j].title = CitationTitle(heap[buf[j].doc])

\* An early document was skipped and two later ones were packed as S1, S2.
C4_Witness ==
  /\ JoinDone
  /\ Len(citations) = 2
  /\ buf[1].idx > 1
  /\ citations[2].source_id = "S2"

(***************************************************************************)
(* _prepare_items on its own: any combination of metadata ids.             *)
(***************************************************************************)
PrepIds == {"", "x", "x#1", "0", "0#1"}

PrepDocs == {[BlankDoc EXCEPT !.md_chunk_id = c] : c \in PrepIds}

InitPrepare ==
  /\ pc = "prepare"
  /\ \E n \in 1..MaxBatch :
       /\ heap \in [1..n -> PrepDocs]
       /\ candidates = [i \in 1..n |-> i]
  /\ docs = <<>>
  /\ reranked_docs = <<>>
  /\ mmr_docs = <<>>
  /\ compressed_docs = <<>>
  /\ buf = <<>>
  /\ context = ""
  /\ citations = <<>>
  /\ max_context = 0
  /\ question = "q"
  /\ stream = NoStream
  /\ published = <<>>
  /\ recorded = <<>>
  /\ reranker = "llm"
  /\ rr_cfg = DefaultRerankConfig
  /\ rr_pos = 0
  /\ items = <<>>
  /\ scored = <<>>
  /\ rr_error = "none"
  /\ rag = NoRag
  /\ defaults = [top_k |-> 2, mmq |-> 1]
  /\ schema = "content"
  /\ mmr = NoMmr
  /\ RetrieveIdle
  /\ CompressIdle
  /\ TaskIdle
  /\ LlmIdle
  /\ QueryIdle
  /\ VllmIdle
  /\ RelIdle

SpecPrepare == InitPrepare /\ [][PrepareBatch]_vars

\* C10: within one batch the ids assigned by _prepare_items are pairwise
\* distinct, whatever ids the documents carry (shared ids, ids that already
\* look like a suffixed id, ids equal to a fallback position); each item is
\* the batch's document at its position.
C10_UniqueItemIds ==
  pc = "prepared" =>
    /\ Len(items) = Len(candidates)
    /\ \A i \in 1..Len(items) : items[i].doc = candidates[i]
    /\ \A i, j \in 1..Len(items) : i # j => items[i].rid # items[j].rid

\* Two documents share the id x while a third already carries x#1.
C10_Witness ==
  /\ pc = "prepared"
  /\ Len(items) = 3
  /\ \E i, j, k \in 1..3 :
       /\ i < j
       /\ heap[candidates[i]].md_chunk_id = "x"
       /\ heap[candidates[j]].md_chunk_id = "x"
       /\ heap[candidates[k]].md_chunk_id = "x#1"
  /\ "x#2" \in ItemIds(items)

(***************************************************************************)
(* The rerank stage on its own: documents fresh from retrieval, any        *)
(* reranker configuration, any answer of the model.                        *)
(***************************************************************************)
RerankDoc == [BlankDoc EXCEPT !.md_chunk_id = "x", !.page_content = "ab"]

RerankConfigs ==
  {[max_candidates |-> mc, top_n |-> tn, batch_size |-> bs,
    max_doc_chars |-> 1800, fail_open |-> fo] :
     mc \in {0, 1}, tn \in {0 - 1, 0, 1}, bs \in {MaxRerank - 1, MaxRerank},
     fo \in BOOLEAN}

InitRerank ==
  /\ pc = "rerank"
  /\ \E n \in 0..MaxRerank :
       /\ heap = [i \in 1..n |-> RerankDoc]
       /\ docs = [i \in 1..n |-> i]
  /\ reranked_docs = <<>>
  /\ mmr_docs = <<>>
  /\ compressed_docs = <<>>
  /\ buf = <<>>
  /\ context = ""
  /\ citations = <<>>
  /\ max_context = 0
  /\ question \in {"", "q"}
  /\ stream \in {s \in Streams : s.has_recorder = s.has_stream}
  /\ published = <<>>
  /\ recorded = <<>>
  /\ reranker \in {"none", "llm"}
  /\ rr_cfg \in RerankConfigs
  /\ RerankIdle
  /\ rag = NoRag
  /\ defaults = [top_k |-> 2, mmq |-> 1]
  /\ schema = "content"
  /\ mmr = NoMmr
  /\ RetrieveIdle
  /\ CompressIdle
  /\ TaskIdle
  /\ LlmIdle
  /\ QueryIdle
  /\ VllmIdle
  /\ RelIdle

NextRerank == StageRerank \/ RerankBatch

SpecRerank == InitRerank /\ [][NextRerank]_vars

\* The reranker was consulted, every batch was answered and parsed, and the
\* stage has returned.
RerankSucceeded ==
  /\ pc = "mmr"
  /\ docs # <<>>
  /\ reranker = "llm"
  /\ question # ""
  /\ rr_error = "none"

IndexIn(s, x) == CHOOSE i \in 1..Len(s) : s[i] = x

RerankScoreOf(o) == ScoreKey(heap[o].md_rerank_score)

\* C5: when an LLM call or a response parse raises and fail_open is true,
\* the result is the input documents in their input order cut to the first
\* top_n, all of them when top_n is 0 (a negative top_n names no prefix, so
\* either every document or none is accepted for it).
C5_FailOpenInputOrder ==
  (pc = "mmr" /\ rr_error = "fail_open") =>
    IF rr_cfg.top_n = 0 THEN reranked_docs = docs
    ELSE IF rr_cfg.top_n > 0 THEN reranked_docs = Take(docs, rr_cfg.top_n)
    ELSE reranked_docs \in {docs, <<>>}

\* C6: with fail_open = false a raising rerank call propagates out of the
\* rerank stage: the stage does not hand a document list to the next stage
\* and publishes no rag_rerank.completed.
C6_ErrorPropagates ==
  rr_error = "raised" =>
    /\ pc # "mmr"
    /\ \A i \in 1..Len(published) : published[i].event # "rag_rerank.completed"

\* C8: after a successful rerank the returned list is in non-increasing
\* order of metadata.rerank_score, and documents with equal rerank_score
\* appear in their input order.
C8_SortedStableTies ==
  RerankSucceeded =>
    \A i, j \in 1..Len(reranked_docs) :
      i < j =>
        /\ RerankScoreOf(reranked_docs[i]) >= RerankScoreOf(reranked_docs[j])
        /\ RerankScoreOf(reranked_docs[i]) = RerankScoreOf(reranked_docs[j])
             => IndexIn(docs, reranked_docs[i]) < IndexIn(docs, reranked_docs[j])

\* C9: in a successful rerank no candidate is lost: every candidate (the
\* first max_candidates input documents, all when max_candidates is 0) ends
\* with a rerank_score, -infinity unless the model scored it, and the output
\* is a duplicate-free list of candidates of length min(top_n, number of
\* candidates), or the number of candidates when top_n <= 0.
C9_NoCandidateLost ==
  RerankSucceeded =>
    LET cands == IF rr_cfg.max_candidates > 0
                 THEN Take(docs, rr_cfg.max_candidates) ELSE docs
    IN /\ \A i \in 1..Len(cands) :
            /\ heap[cands[i]].md_rerank_score # None
            /\ \E k \in 1..Len(scored) : scored[k].doc = cands[i]
            /\ (\A k \in 1..Len(scored) :
                  scored[k].doc = cands[i] => scored[k].score = NegInf)
                 => heap[cands[i]].md_rerank_score = NegInf
       /\ Range(reranked_docs) \subseteq Range(cands)
       /\ \A i, j \in 1..Len(reranked_docs) :
            i # j => reranked_docs[i] # reranked_docs[j]
       /\ Len(reranked_docs) =
            IF rr_cfg.top_n > 0 THEN Min(rr_cfg.top_n, Len(cands)) ELSE Len(cands)

\* The model left out a candidate of a cut-free rerank and scored another.
C9_Witness ==
  /\ RerankSucceeded
  /\ rr_cfg.top_n <= 0
  /\ rr_cfg.max_candidates = 0
  /\ Len(docs) >= 2
  /\ \E i, j \in 1..Len(reranked_docs) :
       /\ heap[reranked_docs[i]].md_rerank_score = NegInf
       /\ heap[reranked_docs[j]].md_rerank_score # NegInf

(***************************************************************************)
(* The retrieve stage on its own: any request overrides, any answers of    *)
(* the retriever port.                                                     *)
(***************************************************************************)
Questions == {"q", "Ab-cde", " "}

InitRetrieve ==
  /\ pc = "retrieve"
  /\ heap = <<>>
  /\ docs = <<>>
  /\ reranked_docs = <<>>
  /\ mmr_docs = <<>>
  /\ compressed_docs = <<>>
  /\ buf = <<>>
  /\ context = ""
  /\ citations = <<>>
  /\ max_context = 0
  /\ question \in Questions
  /\ stream \in {s \in Streams : s.has_recorder = s.has_stream}
  /\ published = <<>>
  /\ recorded = <<>>
  /\ reranker = "none"
  /\ rr_cfg = DefaultRerankConfig
  /\ RerankIdle
  /\ rag \in {[NoRag EXCEPT !.topK = k, !.mmq = m] :
                k \in {None, Some(0), Some(1)},
                m \in {None} \cup {Some(n) : n \in 1..MaxMmq}}
  /\ defaults = [top_k |-> 2, mmq |-> 1]
  /\ schema \in {"content", "text", "chunk", "none"}
  /\ mmr = NoMmr
  /\ RetrieveIdle
  /\ CompressIdle
  /\ TaskIdle
  /\ LlmIdle
  /\ QueryIdle
  /\ VllmIdle
  /\ RelIdle

NextRetrieve ==
  \/ StageRetrieve
  \/ BackendReturns
  \/ NearTextQueryFails
  \/ BackendSchemaError
  \/ BackendFails

SpecRetrieve == InitRetrieve /\ [][NextRetrieve]_vars

RetrieveDone == pc = "rerank"

\* The documents of the variants' result lists, one list after the other.
RECURSIVE Flatten(_)
Flatten(lists) ==
  IF lists = <<>> THEN <<>> ELSE lists[1] \o Flatten(Tail(lists))

\* The positions of a list that hold the first document of their doc_key.
FirstOccurrences(flat) ==
  {i \in 1..Len(flat) : \A j \in 1..(i - 1) : doc_key(flat[j]) # doc_key(flat[i])}

\* The k-th smallest element of a set of positions.
KthOf(P, k) == CHOOSE i \in P : Cardinality({j \in P : j < i}) = k - 1

C3_OneCallPerVariant ==
  RetrieveDone =>
    LET flat == Flatten(docs_by_query)
        P == FirstOccurrences(flat)
    IN /\ Len(calls) = Len(rt_queries)
       /\ \A v \in 1..Len(calls) : calls[v].query = rt_queries[v]
       /\ Len(docs) = Cardinality(P)
       /\ \A k \in 1..Len(docs) : heap[docs[k]] = flat[KthOf(P, k)]

\* C3 amended: the variants are those of expand_queries; each variant gets
\* one backend call with the retriever's text field, in variant order, and
\* further calls for that variant only after a schema error, with other
\* fields (none when the collection holds the configured field); the merged
\* list holds the first occurrences by doc_key in variant order, then result
\* order, cut as soon as it holds topK (default_top_k without an override)
\* times the number of variants documents, and never before the first.
C3_CallsAndMergeOrder ==
  RetrieveDone =>
    LET flat == Flatten(docs_by_query)
        P == FirstOccurrences(flat)
        top_k == IF rag.topK # None THEN rag.topK[1] ELSE defaults.top_k
        limit == top_k * Len(rt_queries)
        expected == IF P = {} THEN 0 ELSE Min(Cardinality(P), Max(limit, 1))
    IN /\ rt_queries = expand_queries(question, EffectiveMmq)
       /\ Len(docs_by_query) = Len(rt_queries)
       /\ \A i, j \in 1..Len(calls) : i < j => calls[i].variant <= calls[j].variant
       /\ \A i \in 1..Len(calls) : calls[i].query = rt_queries[calls[i].variant]
       /\ \A v \in 1..Len(rt_queries) :
            /\ Cardinality({i \in 1..Len(calls) :
                 calls[i].variant = v /\ calls[i].text_key = rt_text_key}) = 1
            /\ \A i \in 1..Len(calls) :
                 (calls[i].variant = v /\ calls[i].text_key # rt_text_key)
                   => /\ schema # rt_text_key
                      /\ \E j \in 1..(i - 1) :
                           calls[j].variant = v /\ calls[j].text_key = rt_text_key
       /\ Len(docs) = expected
       /\ \A k \in 1..Len(docs) : heap[docs[k]] = flat[KthOf(P, k)]

\* Two variants with overlapping results: [c1, c2] and [c2, x] merge to
\* [c1, c2, x].
C3_Witness ==
  /\ RetrieveDone
  /\ Len(rt_queries) = 2
  /\ Len(calls) = 2
  /\ Len(docs_by_query[1]) = 2
  /\ Len(docs_by_query[2]) = 2
  /\ doc_key(docs_by_query[1][2]) = doc_key(docs_by_query[2][1])
  /\ Len(docs) = 3
  /\ heap[docs[3]] = docs_by_query[2][2]

(***************************************************************************)
(* The MMR stage on its own: any overrides of the request, reranked and    *)
(* unreranked documents with and without embeddings.                       *)
(***************************************************************************)
MmrDocs ==
  {[BlankDoc EXCEPT !.page_content = "ab", !.md_rerank_score = Fin(2),
                    !.md_vector = Some(<<1, 0>>)],
   [BlankDoc EXCEPT !.page_content = "ab", !.md_rerank_score = Fin(1),
                    !.md_vector = Some(<<1, 0>>)],
   [BlankDoc EXCEPT !.page_content = "abcd", !.md_rerank_score = Fin(1),
                    !.md_vector = Some(<<0, 1>>)],
   [BlankDoc EXCEPT !.page_content = "ab", !.md_rerank_score = NegInf,
                    !.md_score = Fin(2)],
   [BlankDoc EXCEPT !.page_content = "ab", !.md_distance = Fin(1),
                    !.md_vector = Some(<<0, 1>>)]}

MmrRags ==
  {[NoRag EXCEPT !.mmrK = k, !.mmrFetchK = f, !.mmrLambda = l,
                 !.mmrSimilarityThreshold = t] :
     k \in {Unset, Null, Num(1), Bad}, f \in {Unset, Num(1)},
     l \in {Unset, Num(5)}, t \in {Unset, Null}}

InitMmr ==
  /\ pc = "mmr"
  /\ \E n \in 0..MaxMmrDocs :
       /\ heap \in [1..n -> MmrDocs]
       /\ \/ reranked_docs = [i \in 1..n |-> i] /\ docs = reranked_docs
          \/ reranked_docs = <<>> /\ docs = [i \in 1..n |-> i]
  /\ mmr_docs = <<>>
  /\ compressed_docs = <<>>
  /\ buf = <<>>
  /\ context = ""
  /\ citations = <<>>
  /\ max_context = 0
  /\ question = "q"
  /\ stream \in {s \in Streams : s.has_recorder = s.has_stream}
  /\ published = <<>>
  /\ recorded = <<>>
  /\ reranker = "none"
  /\ rr_cfg = DefaultRerankConfig
  /\ RerankIdle
  /\ rag \in MmrRags
  /\ defaults = [top_k |-> 2, mmq |-> 1]
  /\ schema = "content"
  /\ mmr \in {[NoMmr EXCEPT !.k = k, !.similarity_threshold = Some(85)] :
                k \in {None, Some(2)}}
  /\ RetrieveIdle
  /\ CompressIdle
  /\ TaskIdle
  /\ LlmIdle
  /\ QueryIdle
  /\ VllmIdle
  /\ RelIdle

SpecMmr == InitMmr /\ [][StageMmr]_vars

\* C7: for every stage that ran with a stream attached and returned
\* normally, a <stage>.in_progress event is published if and only if a
\* matching <stage>.completed event is published after it, both with the
\* same jobId and query.
C7_EventPairing ==
  \A s \in {"rag_retrieve", "rag_rerank", "rag_mmr"} :
    (stream.has_stream /\ pc = StageReturnsTo[s]) =>
      LET started == {i \in 1..Len(published) :
                        published[i].event = s \o ".in_progress"}
          ended == {i \in 1..Len(published) :
                      published[i].event = s \o ".completed"}
      IN /\ \A i \in started :
              \E j \in ended : /\ i < j
                               /\ published[j].jobId = published[i].jobId
                               /\ published[j].query = published[i].query
         /\ \A j \in ended :
              \E i \in started : /\ i < j
                                 /\ published[j].jobId = published[i].jobId
                                 /\ published[j].query = published[i].query

(***************************************************************************)
(* The MMR selector on its own: candidates with relevance 0.5 or 1.0 and   *)
(* no embedding, a unit embedding along an axis or against it, or the zero *)
(* embedding; any k, fetch_k, lambda and similarity threshold.             *)
(***************************************************************************)
SelEmbeddings == {None, Some(<<1, 0>>), Some(<<0, 1>>), Some(<<0 - 1, 0>>), Some(<<0, 0>>)}

SelDocs ==
  {[BlankDoc EXCEPT !.page_content = "ab", !.score = Fin(r), !.md_vector = e] :
     r \in {1, 2}, e \in SelEmbeddings}

SelConfigs ==
  {[k |-> Some(k), fetch_k |-> Some(f), lambda_mult |-> Some(l),
    similarity_threshold |-> t] :
     k \in {0, 2}, f \in {1, MaxSelDocs}, l \in {0, 5},
     t \in {None, Some(0), Some(99)}}

InitSelect ==
  /\ pc = "mmr_apply"
  /\ \E n \in 0..MaxSelDocs :
       /\ heap \in [1..n -> SelDocs]
       /\ reranked_docs = [i \in 1..n |-> i]
  /\ docs = reranked_docs
  /\ mmr_docs = <<>>
  /\ compressed_docs = <<>>
  /\ buf = <<>>
  /\ context = ""
  /\ citations = <<>>
  /\ max_context = 0
  /\ question = "q"
  /\ stream = NoStream
  /\ published = <<>>
  /\ recorded = <<>>
  /\ reranker = "none"
  /\ rr_cfg = DefaultRerankConfig
  /\ RerankIdle
  /\ rag = NoRag
  /\ defaults = [top_k |-> 2, mmq |-> 1]
  /\ schema = "content"
  /\ mmr \in SelConfigs
  /\ RetrieveIdle
  /\ CompressIdle
  /\ TaskIdle
  /\ LlmIdle
  /\ QueryIdle
  /\ VllmIdle
  /\ RelIdle

SpecSelect == InitSelect /\ [][MmrApply]_vars

\* mmr_select has run on a non-empty input with k >= 1.
Selected == pc = "mmr_applied" /\ reranked_docs # <<>> /\ mmr.k[1] >= 1

\* The candidates of the selection: the first max(k, fetch_k) inputs.
SelCands == Take(reranked_docs, Max(mmr.k[1], mmr.fetch_k[1]))

SelRel == ComputeDefaultRelScores(heap, SelCands)

\* max(sim(i, s) for s in selected): the greatest similarity of candidate i
\* to the candidates at the positions `chosen`.
SelMaxSim(i, chosen) ==
  SetMax({Sim(heap, SelCands, i, j) : j \in chosen})

SelScore(i, chosen) ==
  mmr.lambda_mult[1] * SelRel[i]
    - (LambdaOne - mmr.lambda_mult[1]) * SelMaxSim(i, chosen) * ScoreOne

SelSkipped(i, chosen) ==
  /\ mmr.similarity_threshold # None
  /\ SelMaxSim(i, chosen) * SimOne >= mmr.similarity_threshold[1]

\* C11: mmr_select is greedy: the first selected item has maximal relevance
\* among the first max(k, fetch_k) inputs; every later selected item
\* maximises lambda*rel(i) - (1-lambda)*max_sim(i, selected) among the
\* remaining candidates not skipped by the similarity threshold; ties go to
\* the earliest candidate in input order.
C11_GreedySelection ==
  Selected =>
    /\ Len(mmr_docs) >= 1
    /\ \A r \in 1..Len(mmr_docs) : mmr_docs[r] \in Range(SelCands)
    /\ \A j \in 1..Len(SelCands) :
         \/ SelRel[mmr_docs[1]] > SelRel[j]
         \/ SelRel[mmr_docs[1]] = SelRel[j] /\ mmr_docs[1] <= j
    /\ \A r \in 2..Len(mmr_docs) :
         LET chosen == {mmr_docs[q] : q \in 1..(r - 1)}
             open == {i \in (1..Len(SelCands)) \ chosen : ~SelSkipped(i, chosen)}
             me == mmr_docs[r]
         IN /\ me \in open
            /\ \A j \in open :
                 \/ SelScore(me, chosen) > SelScore(j, chosen)
                 \/ SelScore(me, chosen) = SelScore(j, chosen) /\ me <= j

\* Every candidate carries the same embedding vector.
SameEmbeddings ==
  /\ \A i \in 1..Len(SelCands) : GetEmbedding(heap[SelCands[i]]) # None
  /\ \A i, j \in 1..Len(SelCands) :
       GetEmbedding(heap[SelCands[i]]) = GetEmbedding(heap[SelCands[j]])

\* C12 as stated: when all candidates carry identical embedding vectors and
\* similarity_threshold is 0.99, mmr_select returns exactly one document.
C12_IdenticalGivesOne ==
  (Selected /\ SameEmbeddings /\ mmr.similarity_threshold = Some(99))
    => Len(mmr_docs) = 1

\* C12 amended: when all candidates carry the same embedding vector, that
\* vector is not the zero vector, and similarity_threshold is 0.99,
\* mmr_select returns exactly one document, the first of maximal relevance.
C12_IdenticalNonZeroGivesOne ==
  (/\ Selected
   /\ SameEmbeddings
   /\ \E x \in 1..2 : GetEmbedding(heap[SelCands[1]])[1][x] # 0
   /\ mmr.similarity_threshold = Some(99))
    => /\ Len(mmr_docs) = 1
       /\ \A j \in 1..Len(SelCands) :
            \/ SelRel[mmr_docs[1]] > SelRel[j]
            \/ SelRel[mmr_docs[1]] = SelRel[j] /\ mmr_docs[1] <= j

\* Three candidates with one non-zero embedding, k = 2, threshold 0.99: one
\* document comes back.
C12_Witness ==
  /\ Selected
  /\ SameEmbeddings
  /\ Len(SelCands) = 3
  /\ heap[SelCands[1]].md_vector = Some(<<1, 0>>)
  /\ mmr.k[1] = 2
  /\ mmr.similarity_threshold = Some(99)
  /\ Len(mmr_docs) = 1

\* The candidates sorted by descending relevance, ties in input order: the
\* candidate at rank r has r - 1 candidates ahead of it.
SelAhead(i) ==
  {j \in 1..Len(SelCands) :
     SelRel[j] > SelRel[i] \/ (SelRel[j] = SelRel[i] /\ j < i)}

SelByRelevance ==
  [r \in 1..Len(SelCands) |->
     CHOOSE i \in 1..Len(SelCands) : Cardinality(SelAhead(i)) = r - 1]

NoEmbeddings ==
  \A i \in 1..Len(SelCands) : GetEmbedding(heap[SelCands[i]]) = None

CompDocs ==
  {[BlankDoc EXCEPT !.page_content = c, !.md_rerank_score = r] :
     c \in {"ab", "cdef"}, r \in {None, Fin(1), Fin(2)}}
  \cup {[BlankDoc EXCEPT !.page_content = "ab", !.doc_id = "x", !.md_rerank_score = Fin(2)],
        [BlankDoc EXCEPT !.page_content = "cdef", !.doc_id = "x"]}

CompConfigs ==
  {[HeuristicCompressorConfig(mc) EXCEPT !.fallback_keep = f] :
     mc \in {None, Some(0), Some(3), Some(6)}, f \in {1, 8}}

InitCompress ==
  /\ pc = "heuristic"
  /\ \E n \in 0..MaxCompDocs :
       /\ heap \in [1..n -> CompDocs]
       /\ mmr_docs = [i \in 1..n |-> i]
  /\ hc_cfg \in CompConfigs
  /\ question = "ab"
  /\ kept = <<>>
  /\ hc_out = <<>>
  /\ heuristic_hits = 0
  /\ llm_applied = FALSE
  /\ llm_compressor = "none"
  /\ max_context = MaxBudget
  /\ docs = <<>>
  /\ reranked_docs = <<>>
  /\ compressed_docs = <<>>
  /\ buf = <<>>
  /\ context = ""
  /\ citations = <<>>
  /\ stream = NoStream
  /\ published = <<>>
  /\ recorded = <<>>
  /\ reranker = "none"
  /\ rr_cfg = DefaultRerankConfig
  /\ RerankIdle
  /\ rag = NoRag
  /\ defaults = [top_k |-> 2, mmq |-> 1]
  /\ schema = "content"
  /\ mmr = NoMmr
  /\ RetrieveIdle
  /\ TaskIdle
  /\ LlmIdle
  /\ QueryIdle
  /\ VllmIdle
  /\ RelIdle

SpecCompress == InitCompress /\ [][HeuristicCompress]_vars

HeuristicDone == pc = "heuristic_done"

\* C15: the first document of the compressor's input is in its output
\* whenever max_context is not zero, whatever the filter answered.
C15_AnchorKept ==
  (HeuristicDone /\ mmr_docs # <<>> /\ hc_cfg.max_context # Some(0))
    => mmr_docs[1] \in Range(compressed_docs)

\* C16: when max_context is not null, the lengths of the returned documents
\* sum to at most max_context.
C16_WithinBudget ==
  (HeuristicDone /\ hc_cfg.max_context # None)
    => SumLen(heap, compressed_docs) <= hc_cfg.max_context[1]

KeptFits == {o \in Range(kept) : Len(heap[o].page_content) <= hc_cfg.max_context[1]}

\* C16 (amended): when max_context is not null, the returned documents are
\* within max_context, unless every kept document is longer than
\* max_context: then the first min(len(kept), fallback_keep) kept documents
\* are returned.
C16_WithinBudgetOrFallback ==
  (HeuristicDone /\ hc_cfg.max_context # None)
    => IF KeptFits # {}
       THEN SumLen(heap, compressed_docs) <= hc_cfg.max_context[1]
       ELSE compressed_docs = SubSeq(kept, 1, Min(Len(kept), hc_cfg.fallback_keep))

C16_Witness ==
  /\ HeuristicDone
  /\ hc_cfg.max_context = Some(3)
  /\ KeptFits = {}
  /\ Len(kept) > hc_cfg.fallback_keep
  /\ Len(compressed_docs) = 1
  /\ SumLen(heap, compressed_docs) > 3

\* The order the output is to follow: rerank_score descending (an absent or
\* -inf score last), then the first input position of the stable key.
KeptScoreOf(o) ==
  LET v == heap[o].md_rerank_score
  IN IF v = None \/ v[1] # "fin" THEN 0 - 1 ELSE v[2]

FirstPosOf(o) ==
  CHOOSE i \in 1..Len(mmr_docs) :
    /\ doc_stable_key(heap[mmr_docs[i]], mmr_docs[i]) = doc_stable_key(heap[o], o)
    /\ \A j \in 1..(i - 1) :
         doc_stable_key(heap[mmr_docs[j]], mmr_docs[j]) # doc_stable_key(heap[o], o)

RerankOrdered(a, b) ==
  \/ KeptScoreOf(a) > KeptScoreOf(b)
  \/ KeptScoreOf(a) = KeptScoreOf(b) /\ FirstPosOf(a) <= FirstPosOf(b)

InputHasRerank == \E i \in 1..Len(mmr_docs) : heap[mmr_docs[i]].md_rerank_score # None

\* The positions of the output's documents in the kept list.
KeptAt(o) == CHOOSE i \in 1..Len(kept) : kept[i] = o

\* C17: when some input document has a rerank_score, the output is ordered
\* by (-rerank_score, first input position of the stable key), and its
\* documents stand in the order they have in the sorted kept list.
C17_RerankOrder ==
  (HeuristicDone /\ InputHasRerank)
    => /\ Range(compressed_docs) \subseteq Range(kept)
       /\ \A i, j \in 1..Len(compressed_docs) :
            i < j => /\ RerankOrdered(compressed_docs[i], compressed_docs[j])
                     /\ KeptAt(compressed_docs[i]) < KeptAt(compressed_docs[j])

C17_Witness ==
  /\ HeuristicDone
  /\ InputHasRerank
  /\ Len(compressed_docs) = 2
  /\ Len(kept) = 3
  /\ compressed_docs[1] # mmr_docs[1]
  /\ KeptScoreOf(compressed_docs[1]) > KeptScoreOf(compressed_docs[2])

(***************************************************************************)
(* The pipeline: retrieve, rerank, MMR, compress, join-context in turn.    *)
(***************************************************************************)
PipelineRags ==
  {[NoRag EXCEPT !.useLlm = u, !.maxContext = m] :
     u \in {Unset, Num(0)}, m \in {Unset, Num(1)}}

Init ==
  /\ pc = "retrieve"
  /\ heap = <<>>
  /\ docs = <<>>
  /\ reranked_docs = <<>>
  /\ mmr_docs = <<>>
  /\ compressed_docs = <<>>
  /\ buf = <<>>
  /\ context = ""
  /\ citations = <<>>
  /\ max_context = MaxBudget
  /\ question = "ab"
  /\ stream \in {s \in Streams : s.has_stream}
  /\ published = <<>>
  /\ recorded = <<>>
  /\ reranker \in {"none", "llm", "port"}
  /\ rr_cfg = DefaultRerankConfig
  /\ RerankIdle
  /\ rag \in PipelineRags
  /\ defaults = [top_k |-> 2, mmq |-> 1]
  /\ schema \in {"content", "text"}
  /\ mmr = NoMmr
  /\ RetrieveIdle
  /\ hc_cfg = HeuristicCompressorConfig(None)
  /\ kept = <<>>
  /\ hc_out = <<>>
  /\ heuristic_hits = 0
  /\ llm_applied = FALSE
  /\ llm_compressor \in {"none", "llm"}
  /\ llm_async \in BOOLEAN
  /\ abandoned = {}
  /\ LlmIdle
  /\ QueryIdle
  /\ VllmIdle
  /\ RelIdle
  /\ reranker = "llm" => (schema = "content" /\ rag = NoRag)

Next ==
  \/ StageRetrieve
  \/ BackendReturns
  \/ BackendSchemaError
  \/ NearTextQueryFails
  \/ BackendFails
  \/ StageRerank
  \/ RerankBatch
  \/ StageMmr
  \/ StageCompress
  \/ CompressLlm
  \/ StageJoinContext
  \/ Cancel

Spec == Init /\ [][Next]_vars

PipelineDone == pc = "prompt"

\* C14: after a complete run with a reranker configured, whatever the
\* reranker answered, each stage's list is no longer than the list of the
\* stage before it.
C14_MonotoneShrinkage ==
  (PipelineDone /\ reranker # "none")
    => /\ Len(compressed_docs) <= Len(mmr_docs)
       /\ Len(mmr_docs) <= Len(reranked_docs)
       /\ Len(reranked_docs) <= Len(docs)

(***************************************************************************)
(* join_context on documents with any scores, finite or not.               *)
(***************************************************************************)
CiteScores == {None, Fin(0), Fin(1), <<"nan">>, <<"inf">>, NegInf}

CiteDocs ==
  {[BlankDoc EXCEPT !.page_content = "ab", !.md_rerank_score = r, !.md_score = m,
                    !.score = t] :
     r \in CiteScores, m \in CiteScores, t \in CiteScores}

InitCite ==
  /\ pc = "join"
  /\ \E n \in 0..MaxCiteDocs :
       /\ heap \in [1..n -> CiteDocs]
       /\ compressed_docs = [i \in 1..n |-> i]
  /\ max_context = 2 * MaxCiteDocs
  /\ docs = <<>>
  /\ reranked_docs = <<>>
  /\ mmr_docs = <<>>
  /\ buf = <<>>
  /\ context = ""
  /\ citations = <<>>
  /\ question = "q"
  /\ stream = NoStream
  /\ published = <<>>
  /\ recorded = <<>>
  /\ reranker = "none"
  /\ rr_cfg = DefaultRerankConfig
  /\ RerankIdle
  /\ rag = NoRag
  /\ defaults = [top_k |-> 2, mmq |-> 1]
  /\ schema = "content"
  /\ mmr = NoMmr
  /\ RetrieveIdle
  /\ CompressIdle
  /\ TaskIdle
  /\ LlmIdle
  /\ QueryIdle
  /\ VllmIdle
  /\ RelIdle

SpecCite == InitCite /\ [][StageJoinContext]_vars

IsFinite(v) == v # None /\ v[1] = "fin"

\* The document the i-th citation was made for.
CitedDoc(i) == heap[buf[i].doc]

\* C18: no citation carries a rerank_score or score that is NaN or
\* infinite: each is absent or a finite number.
C18_FiniteCitationScores ==
  JoinDone =>
    \A i \in 1..Len(citations) :
      /\ citations[i].rerank_score = None \/ IsFinite(citations[i].rerank_score)
      /\ citations[i].score = None \/ IsFinite(citations[i].score)

C18_Witness ==
  /\ JoinDone
  /\ \E i \in 1..Len(citations) :
       /\ CitedDoc(i).md_rerank_score = <<"nan">>
       /\ CitedDoc(i).md_score = <<"inf">>
       /\ CitedDoc(i).score = NegInf
       /\ citations[i].rerank_score = None
       /\ citations[i].score = None

\* C19: the rerank_score of a citation is absent whenever the document has
\* no finite metadata rerank_score, whatever its retrieval scores.
C19_AbsentWithoutRerank ==
  JoinDone =>
    \A i \in 1..Len(citations) :
      ~IsFinite(CitedDoc(i).md_rerank_score) => citations[i].rerank_score = None

\* C19 (amended): the rerank_score of a citation is absent whenever the
\* document has no finite metadata rerank_score and no finite retrieval
\* score (metadata score, document score).
C19_AbsentWithoutAnyScore ==
  JoinDone =>
    \A i \in 1..Len(citations) :
      (/\ ~IsFinite(CitedDoc(i).md_rerank_score)
       /\ ~IsFinite(CitedDoc(i).md_score)
       /\ ~IsFinite(CitedDoc(i).score))
        => citations[i].rerank_score = None

C19_Witness ==
  /\ JoinDone
  /\ \E i \in 1..Len(citations) :
       /\ CitedDoc(i).md_rerank_score = NegInf
       /\ CitedDoc(i).md_score = None
       /\ CitedDoc(i).score = <<"nan">>
       /\ citations[i].rerank_score = None

Cancelled == pc = "cancelled"

\* C20: once the task is cancelled, nothing more is published or recorded,
\* and the external call that was in flight is not left running.
C20_CancelAborts ==
  /\ [](Cancelled => abandoned = {})
  /\ [][Cancelled => (published' = published /\ recorded' = recorded)]_vars

StrippedKeys == {"event", "jobId", "userId", "sessionId"}

MaxLlmDocs == 2

LlmDocs ==
  {[BlankDoc EXCEPT !.page_content = c, !.md_chunk_id = "c1"] : c \in {"", " ", "abcdefgh"}}

LlmConfigs ==
  [per_doc_max_chars : {3500}, output_max_chars : {5, 1200}, min_keep_chars : {0, 3},
   fail_open : BOOLEAN]

InitLlmCompress ==
  /\ pc = "llm_compress"
  /\ \E n \in 1..MaxLlmDocs :
       /\ heap \in [1..n -> LlmDocs]
       /\ lc_docs = [i \in 1..n |-> i]
  /\ lc_cfg \in LlmConfigs
  /\ lc_out = <<>>
  /\ lc_calls = <<>>
  /\ lc_state = "running"
  /\ max_context = MaxBudget
  /\ docs = <<>> /\ reranked_docs = <<>> /\ mmr_docs = <<>> /\ compressed_docs = <<>>
  /\ buf = <<>> /\ context = "" /\ citations = <<>>
  /\ question = "ab"
  /\ stream = NoStream
  /\ published = <<>> /\ recorded = <<>>
  /\ reranker = "none"
  /\ rr_cfg = DefaultRerankConfig
  /\ RerankIdle
  /\ rag = NoRag
  /\ defaults = [top_k |-> 2, mmq |-> 1]
  /\ schema = "content"
  /\ mmr = NoMmr
  /\ RetrieveIdle
  /\ CompressIdle
  /\ TaskIdle
  /\ QueryIdle
  /\ VllmIdle
  /\ RelIdle

NextLlmCompress == CompressDoc \/ CompressDocsReturns

SpecLlmCompress == InitLlmCompress /\ [][NextLlmCompress]_vars

\* The call for the document at position i ended in one of the three ways
\* that ask for the original: unparsable output, a kept text shorter than
\* min_keep_chars, or an exception under fail_open.
AsksForOriginal(i) ==
  \/ lc_calls[i].call = "raised" /\ lc_cfg.fail_open
  \/ /\ lc_calls[i].call = "returned"
     /\ \/ lc_calls[i].payload = None
        \/ Len(lc_calls[i].kept_text) < lc_cfg.min_keep_chars

\* C22: once compress_docs has returned, the output has the length of the
\* input, and at every position whose LLM output could not be parsed, whose
\* kept text was shorter than min_keep_chars or whose call raised under
\* fail_open, the output is the input document of that position, with the
\* page_content it had and without the metadata key compressed.
C22_FallbackToOriginal ==
  lc_state = "returned" =>
    /\ Len(lc_out) = Len(lc_docs)
    /\ \A i \in 1..Len(lc_docs) :
         AsksForOriginal(i) =>
           /\ lc_out[i] = lc_docs[i]
           /\ heap[lc_out[i]].page_content = lc_calls[i].original
           /\ ~heap[lc_out[i]].md_compressed


(***************************************************************************)
(* The query helpers on their own: every string of up to MaxQueryLen       *)
(* characters over an alphabet with the two Hangul syllables, a dash, a    *)
(* space, a full stop, a lower-case and an upper-case letter, and a few    *)
(* longer questions.                                                       *)
(***************************************************************************)
MaxQueryLen == 3

QueryAlphabet == {HangulDi, HangulBi, "-", " ", ".", "a", "B"}

RECURSIVE StringsUpTo(_)
StringsUpTo(n) ==
  IF n = 0 THEN {""}
  ELSE LET shorter == StringsUpTo(n - 1)
       IN shorter \cup {s \o c : s \in shorter, c \in QueryAlphabet}

QueryStrings ==
  StringsUpTo(MaxQueryLen) \cup {" Ab-cde", "abcd abcd", "$.@ api", "$$$ $$$"}

InitQuery ==
  /\ pc = "query"
  /\ question \in QueryStrings
  /\ normalized = <<>>
  /\ expanded = <<>>
  /\ heap = <<>>
  /\ max_context = MaxBudget
  /\ docs = <<>> /\ reranked_docs = <<>> /\ mmr_docs = <<>> /\ compressed_docs = <<>>
  /\ buf = <<>> /\ context = "" /\ citations = <<>>
  /\ stream = NoStream
  /\ published = <<>> /\ recorded = <<>>
  /\ reranker = "none"
  /\ rr_cfg = DefaultRerankConfig
  /\ RerankIdle
  /\ rag = NoRag
  /\ defaults = [top_k |-> 2, mmq |-> 1]
  /\ schema = "content"
  /\ mmr = NoMmr
  /\ RetrieveIdle
  /\ CompressIdle
  /\ TaskIdle
  /\ LlmIdle
  /\ VllmIdle
  /\ RelIdle

NextQuery == NormalizeQuery \/ ExpandQueries

SpecQuery == InitQuery /\ [][NextQuery]_vars

\* C23: normalising an already normalised question in full mode gives the
\* same string: normalize_query(normalize_query(q, "full"), "full") =
\* normalize_query(q, "full"), for every question q.
C23_NormalizeIdempotent ==
  Len(normalized) = 2 => normalized[2] = normalized[1]

Variants == expanded[1].variants

NoDuplicates(s) == \A i, j \in 1..Len(s) : s[i] = s[j] => i = j

\* C24 as stated: expand_queries returns a non-empty list without
\* duplicates of at most max(1, mmq) variants whose first element is the
\* question, and exactly [question] when mmq <= 1.
C24_VariantsFromOriginal ==
  expanded # <<>> =>
    /\ Variants # <<>>
    /\ NoDuplicates(Variants)
    /\ Len(Variants) <= Max(1, expanded[1].mmq)
    /\ Variants[1] = question
    /\ expanded[1].mmq <= 1 => Variants = <<question>>

\* C24 amended: expand_queries returns a list without duplicates of at most
\* max(1, mmq) variants, exactly [question] when mmq <= 1; when mmq > 1 and
\* the question has a character that is no whitespace, the list is not
\* empty and its first element is the question stripped of the whitespace
\* around it.
C24_VariantsFromStripped ==
  expanded # <<>> =>
    /\ NoDuplicates(Variants)
    /\ Len(Variants) <= Max(1, expanded[1].mmq)
    /\ expanded[1].mmq <= 1 => Variants = <<question>>
    /\ (expanded[1].mmq > 1 /\ Strip(question) # "") =>
         (Variants # <<>> /\ Variants[1] = Strip(question))

C24_Witness ==
  /\ expanded # <<>>
  /\ question = " Ab-cde"
  /\ expanded[1].mmq = 2
  /\ Variants = <<"Ab-cde", "ab-cde">>


(***************************************************************************)
(* astream on its own: any stream of up to MaxChunks chunks, up to         *)
(* MaxCallbacks handlers.                                                  *)
(***************************************************************************)
MaxChunks == 3

MaxCallbacks == 2

Chunks ==
  {[type |-> "output_text.delta", text |-> t, finish_reason |-> ""] : t \in {"", "a"}}
    \cup {[type |-> "output_text.done", text |-> "", finish_reason |-> "stop"],
          [type |-> "failed", text |-> "", finish_reason |-> "stream failed"]}

InitAstream ==
  /\ pc = "astream"
  /\ \E n \in 0..MaxChunks : vs_chunks \in [1..n -> Chunks]
  /\ \E n \in 0..MaxCallbacks : vs_callbacks = [i \in 1..n |-> NewHandler]
  /\ vs_pos = 0
  /\ vs_end_called = FALSE
  /\ vs_state = [at |-> "streaming", exc |-> ""]
  /\ heap = <<>>
  /\ max_context = MaxBudget
  /\ docs = <<>> /\ reranked_docs = <<>> /\ mmr_docs = <<>> /\ compressed_docs = <<>>
  /\ buf = <<>> /\ context = "" /\ citations = <<>>
  /\ question = "hi"
  /\ stream = NoStream
  /\ published = <<>> /\ recorded = <<>>
  /\ reranker = "none"
  /\ rr_cfg = DefaultRerankConfig
  /\ RerankIdle
  /\ rag = NoRag
  /\ defaults = [top_k |-> 2, mmq |-> 1]
  /\ schema = "content"
  /\ mmr = NoMmr
  /\ RetrieveIdle
  /\ CompressIdle
  /\ TaskIdle
  /\ LlmIdle
  /\ QueryIdle
  /\ RelIdle

NextAstream == AstreamChunk \/ AstreamExhausted \/ AstreamRpcError \/ AstreamReturns

SpecAstream == InitAstream /\ [][NextAstream]_vars

\* C25: once astream has taken a chunk of type "failed" from the stream, it
\* has raised a RuntimeError whose message is the chunk's finish_reason,
\* every handler has received on_llm_error exactly once, with that message,
\* and no handler has received on_llm_end.
C25_FailedChunkRaises ==
  \A i \in 1..vs_pos :
    vs_chunks[i].type = "failed" =>
      /\ vs_state = [at |-> "raised", exc |-> vs_chunks[i].finish_reason]
      /\ \A c \in DOMAIN vs_callbacks :
           /\ vs_callbacks[c].errors = <<vs_chunks[i].finish_reason>>
           /\ vs_callbacks[c].ends = <<>>


(***************************************************************************)
(* _compute_default_rel_scores on its own: candidates whose rerank_score   *)
(* is absent, a number or -inf, with and without a retrieval score and a   *)
(* distance.                                                               *)
(***************************************************************************)
MaxRelDocs == 2

RelDocs ==
  {[BlankDoc EXCEPT !.page_content = "ab", !.md_rerank_score = r, !.score = s,
                    !.md_distance = d] :
     r \in {None, Fin(1), NegInf}, s \in {None, Fin(2)},
     d \in {None, Fin(0), Fin(2)}}

InitRelevance ==
  /\ pc = "relevance"
  /\ \E n \in 0..MaxRelDocs :
       /\ heap \in [1..n -> RelDocs]
       /\ reranked_docs = [i \in 1..n |-> i]
  /\ rel_scores = <<>>
  /\ docs = reranked_docs
  /\ mmr_docs = <<>> /\ compressed_docs = <<>>
  /\ buf = <<>> /\ context = "" /\ citations = <<>>
  /\ max_context = 0
  /\ question = "q"
  /\ stream = NoStream
  /\ published = <<>> /\ recorded = <<>>
  /\ reranker = "none"
  /\ rr_cfg = DefaultRerankConfig
  /\ RerankIdle
  /\ rag = NoRag
  /\ defaults = [top_k |-> 2, mmq |-> 1]
  /\ schema = "content"
  /\ mmr = NoMmr
  /\ RetrieveIdle
  /\ CompressIdle
  /\ TaskIdle
  /\ LlmIdle
  /\ QueryIdle
  /\ VllmIdle

SpecRelevance == InitRelevance /\ [][ComputeRelScores]_vars

RelCand(i) == heap[rel_scores[1].candidates[i]]

HasFiniteRerank(d) == d.md_rerank_score # None /\ d.md_rerank_score[1] = "fin"

\* C26: the relevance of a candidate is its rerank_score when that is
\* finite; otherwise (no rerank_score, or one that is not finite) its
\* doc.score / metadata.__orig_score / metadata.score when one exists; only
\* when none exists the normalised distance, a value of [0, 1], and at last 0.
C26_RelevanceChain ==
  rel_scores # <<>> =>
    \A i \in 1..Len(rel_scores[1].candidates) :
      LET d == RelCand(i)
          rel == rel_scores[1].scores[i]
      IN IF HasFiniteRerank(d) THEN rel = d.md_rerank_score[2]
         ELSE IF DocScore(d) # None THEN rel = DocScore(d)[2]
         ELSE IF d.md_distance # None THEN rel \in 0..ScoreOne
         ELSE rel = 0


\* C27: when the request carries a max_context override, the documents
\* packed by stage_join_context total at most that many characters.
C27_OverrideIsBudget ==
  (PipelineDone /\ rag.maxContext[1] = "num") =>
    SumLen(heap, [j \in 1..Len(buf) |-> buf[j].doc]) <= rag.maxContext[2]


TransportFailed == \E i \in 1..Len(calls) : calls[i].outcome = "transport_error"

\* C28: once a near_text query has failed in transport, the retrieve stage
\* has stopped with an error: no rag_retrieve.completed event is published
\* and no later stage runs.
C28_TransportFailureStops ==
  TransportFailed =>
    /\ pc = "failed"
    /\ \A i \in 1..Len(published) : published[i].event # "rag_retrieve.completed"

\* The backend call i found its text field.
CallWorked(i) == calls[i].outcome = "returned"

\* The fallback fields tried for variant v, in the order of the calls.
FallbackTried(v) ==
  LET tried == SelectSeq(calls, LAMBDA c : c.variant = v)
  IN [i \in 1..(Len(tried) - 1) |-> tried[i + 1].text_key]

IsPrefixOf(s, t) == Len(s) <= Len(t) /\ \A i \in 1..Len(s) : s[i] = t[i]

\* C29: after a schema error the fields text, page_content, body, chunk are
\* tried in that order up to the first that works; the field that worked is
\* remembered, and every later backend call of the pipeline is made with it;
\* when no field works the stage fails and the remembered field is the one
\* the stage started with.
C29_FallbackRemembered ==
  /\ \A v \in 1..Len(rt_queries) : IsPrefixOf(FallbackTried(v), FallbackKeys)
  /\ \A i \in 1..Len(calls) :
       (CallWorked(i) /\ calls[i].text_key # rt_text_key) =>
         /\ text_key = calls[i].text_key
         /\ \A j \in (i + 1)..Len(calls) : calls[j].text_key = calls[i].text_key
  /\ (pc = "failed" /\ calls # <<>> /\ calls[Len(calls)].outcome = "KeyError") =>
       text_key = rt_text_key


\* C30: when a rerank call fails open, no returned document carries a
\* rerank_score or a rerank_reason (the inputs of the call carry none), also
\* when earlier batches of the call had been scored.
C30_FailOpenLeavesDocs ==
  (pc = "mmr" /\ rr_error = "fail_open") =>
    \A i \in 1..Len(reranked_docs) :
      /\ heap[reranked_docs[i]].md_rerank_score = None
      /\ heap[reranked_docs[i]].md_rerank_reason = ""

====
